---- MODULE Spec2Model ----
(***************************************************************************)
(* The relational normalizer of hcc_bclc_extractor (db.py): the            *)
(* transactional scope get_db_session, the upsert insert_extraction, the   *)
(* evidence-span flattening and the comparative outcome derivation.        *)
(*                                                                         *)
(* Conventions.  Python None and SQL NULL are the string None ("None");    *)
(* the meta fields (pmid, doi, title, ...) are atoms.  An outcome metric's *)
(* value is a sequence of one-character strings, so that strip/split/float *)
(* are computed; its None is the sequence NoneStr.  A parsed float is the  *)
(* pair <<mantissa, decimals>> with no trailing zero decimal (13.6 is      *)
(* <<136, 1>>), its None is NoneNum.                                       *)
(***************************************************************************)
EXTENDS Integers, Sequences, FiniteSets, TLC

\* ------------------------------------------------------------------ bounds

\* how many insert_extraction calls a behaviour of Spec begins
MaxCalls == 3
\* how many insert_extraction calls a behaviour of SpecConc begins
MaxConcCalls == 2
\* how many experiment arms a document of SpecOutcomes holds at most
MaxArms == 2

\* ------------------------------------------------------- values and truthiness

None == "None"
NoneStr == <<"None">>
NoneNum == <<>>

\* Python truthiness of an Optional[str] atom: `if meta.pmid:`
Truthy(x) == x # None /\ x # ""

\* Python truthiness of an Optional[str] character sequence: `if not value:`
TruthyStr(v) == v # NoneStr /\ v # <<>>

Sessions == {1, 2}

\* --------------------------------------------------- _parse_numeric_value

Digits == {"0", "1", "2", "3", "4", "5", "6", "7", "8", "9"}

DigitVal(c) ==
    CASE c = "0" -> 0 [] c = "1" -> 1 [] c = "2" -> 2 [] c = "3" -> 3
      [] c = "4" -> 4 [] c = "5" -> 5 [] c = "6" -> 6 [] c = "7" -> 7
      [] c = "8" -> 8 [] c = "9" -> 9

IsSpace(c) == c = " "

RECURSIVE LStrip(_)
LStrip(v) ==
    IF v = <<>> THEN <<>>
    ELSE IF IsSpace(Head(v)) THEN LStrip(Tail(v)) ELSE v

RECURSIVE RStrip(_)
RStrip(v) ==
    IF v = <<>> THEN <<>>
    ELSE IF IsSpace(v[Len(v)]) THEN RStrip(SubSeq(v, 1, Len(v) - 1)) ELSE v

\* str.strip()
Strip(v) == RStrip(LStrip(v))

\* the characters of v up to its first whitespace
RECURSIVE TakeToken(_)
TakeToken(v) ==
    IF v = <<>> \/ IsSpace(Head(v)) THEN <<>>
    ELSE <<Head(v)>> \o TakeToken(Tail(v))

\* str.split(): the whitespace-delimited tokens, none of them empty
RECURSIVE Split(_)
Split(v) ==
    LET w == LStrip(v)
        t == TakeToken(w)
    IN  IF w = <<>> THEN <<>>
        ELSE <<t>> \o Split(SubSeq(w, Len(t) + 1, Len(w)))

NumDots(tok) == Cardinality({i \in 1..Len(tok) : tok[i] = "."})
NumDigits(tok) == Cardinality({i \in 1..Len(tok) : tok[i] \in Digits})

\* float(tok) does not raise ValueError: decimal digits with at most one point
\* (over the alphabet of ValueChars; signs, exponents, inf and nan are not in it)
CanFloat(tok) ==
    /\ \A i \in 1..Len(tok) : tok[i] \in Digits \cup {"."}
    /\ NumDots(tok) <= 1
    /\ NumDigits(tok) >= 1

RECURSIVE Mantissa(_, _)
Mantissa(tok, acc) ==
    IF tok = <<>> THEN acc
    ELSE IF Head(tok) = "." THEN Mantissa(Tail(tok), acc)
    ELSE Mantissa(Tail(tok), 10 * acc + DigitVal(Head(tok)))

Decimals(tok) ==
    IF NumDots(tok) = 0 THEN 0
    ELSE Len(tok) - (CHOOSE i \in 1..Len(tok) : tok[i] = ".")

RECURSIVE Normalize(_, _)
Normalize(m, d) ==
    IF d > 0 /\ m % 10 = 0 THEN Normalize(m \div 10, d - 1) ELSE <<m, d>>

\* float(tok) for a tok with CanFloat(tok)
Float(tok) == Normalize(Mantissa(tok, 0), Decimals(tok))

\* mutant: float(value.strip()), the unit not split off
ParseWholeValue(value) ==
    IF ~TruthyStr(value) THEN NoneNum
    ELSE IF CanFloat(Strip(value)) THEN Float(Strip(value)) ELSE NoneNum

_parse_numeric_value(value) ==
    IF ~TruthyStr(value) THEN NoneNum
    ELSE LET toks == Split(Strip(value))
         IN  IF toks = <<>> THEN NoneNum              \* IndexError
             ELSE IF CanFloat(toks[1]) THEN Float(toks[1])
             ELSE NoneNum                             \* ValueError

\* ---------------------------------------------- _insert_outcomes_survival

\* An ExperimentArm is [arm_name, results |-> [os, pfs, ttp]] and an OutcomeMetric
\* is [value]: of a metric, only value decides whether and with which medians a
\* row is written; p_value, hr, hr_ci and the evidence locators of data_a are
\* copied (or parsed, never raising) into columns that are left out here.
Endpoints == <<"OS", "PFS", "TTP">>

Metric(results, endpoint) ==
    CASE endpoint = "OS" -> results.os
      [] endpoint = "PFS" -> results.pfs
      [] endpoint = "TTP" -> results.ttp

\* mutant: the arm is looked for without `if comparator_name:`
ComparatorArmAnyName(experiments, comparator_name) ==
    IF \E i \in 1..Len(experiments) : experiments[i].arm_name = comparator_name
    THEN CHOOSE i \in 1..Len(experiments) :
            /\ experiments[i].arm_name = comparator_name
            /\ \A j \in 1..(i - 1) : experiments[j].arm_name # comparator_name
    ELSE 0

\* mutant: when no arm has the name, the first arm stands in for the comparator
ComparatorArmOrFirst(experiments, comparator_name) ==
    IF Truthy(comparator_name)
         /\ \E i \in 1..Len(experiments) : experiments[i].arm_name = comparator_name
    THEN CHOOSE i \in 1..Len(experiments) :
            /\ experiments[i].arm_name = comparator_name
            /\ \A j \in 1..(i - 1) : experiments[j].arm_name # comparator_name
    ELSE IF Truthy(comparator_name) /\ experiments # <<>> THEN 1 ELSE 0

\* the index of the first experiment named comparator_name; 0 is Python's None
ComparatorArm(experiments, comparator_name) ==
    IF Truthy(comparator_name)
         /\ \E i \in 1..Len(experiments) : experiments[i].arm_name = comparator_name
    THEN CHOOSE i \in 1..Len(experiments) :
            /\ experiments[i].arm_name = comparator_name
            /\ \A j \in 1..(i - 1) : experiments[j].arm_name # comparator_name
    ELSE 0

\* mutant: the comparator arm is not skipped
NeverComparatorArm(exp, comparator_name) == FALSE

\* `if exp.arm_name == comparator_name: continue`
IsComparatorArm(exp, comparator_name) == exp.arm_name = comparator_name

\* `exp.arm_name or "N/A"`
GroupAName(exp) == IF Truthy(exp.arm_name) THEN exp.arm_name ELSE "N/A"

\* `if median_a is not None:`
EmitsRow(median_a) == median_a # NoneNum

\* the rows one experiment writes for endpoints k..3, in order
RECURSIVE ArmRows(_, _, _, _, _)
ArmRows(extraction_id, experiments, i, comparator_name, k) ==
    IF k > Len(Endpoints) THEN <<>>
    ELSE LET exp == experiments[i]
             c == ComparatorArm(experiments, comparator_name)
             data_a == Metric(exp.results, Endpoints[k])
             median_a == _parse_numeric_value(data_a.value)
             median_b == IF c = 0 THEN NoneNum
                         ELSE _parse_numeric_value(
                                  Metric(experiments[c].results, Endpoints[k]).value)
             row == [extraction_id |-> extraction_id,
                     endpoint |-> Endpoints[k],
                     group_a |-> GroupAName(exp),
                     group_b |-> comparator_name,
                     median_a_months |-> median_a,
                     median_b_months |-> median_b]
         IN  (IF EmitsRow(median_a) THEN <<row>> ELSE <<>>)
                 \o ArmRows(extraction_id, experiments, i, comparator_name, k + 1)

\* the rows experiments i.. write, in order
RECURSIVE OutcomeRowsFrom(_, _, _, _)
OutcomeRowsFrom(extraction_id, experiments, i, comparator_name) ==
    IF i > Len(experiments) THEN <<>>
    ELSE (IF IsComparatorArm(experiments[i], comparator_name) THEN <<>>
          ELSE ArmRows(extraction_id, experiments, i, comparator_name, 1))
             \o OutcomeRowsFrom(extraction_id, experiments, i + 1, comparator_name)

\* the parameter rows of the session.execute calls of _insert_outcomes_survival
_insert_outcomes_survival(extraction_id, extraction_output) ==
    OutcomeRowsFrom(extraction_id, extraction_output.experiments, 1,
                    extraction_output.study_metadata.comparator)

\* the parameter rows of the session.execute calls of _insert_evidence_spans
_insert_evidence_spans(extraction_id, extraction_output) ==
    [n \in 1..Len(extraction_output.evidence_spans) |->
        LET span == extraction_output.evidence_spans[n]
        IN  [extraction_id |-> extraction_id,
             field_path |-> span.field_path,
             value_json |-> span.value_json,
             evidence_section |-> span.evidence_section,
             evidence_page |-> span.evidence_page,
             table_figure |-> span.table_figure,
             verbatim_excerpt |-> span.verbatim_excerpt,
             locator |-> span.locator]]

\* ------------------------------------------------------------ JSON documents

\* A decoded JSON value, as json.loads returns it and model_validate reads it,
\* is a record tagged with its Python type: NoneType, str, int, float (the pair
\* a parsed float is), bool, list (a sequence), dict (a function of its keys).
\* The str of an OutcomeMetric.value is a sequence of characters, as above.
JNull == [t |-> "null"]
JStr(s) == [t |-> "str", s |-> s]
JInt(n) == [t |-> "int", n |-> n]
JFloat(x) == [t |-> "float", x |-> x]
JBool(b) == [t |-> "bool", b |-> b]
JList(q) == [t |-> "list", q |-> q]
JObj(f) == [t |-> "obj", f |-> f]
\* the str of an OutcomeMetric.value
JChars(c) == [t |-> "str", c |-> c]

NoKeys == [k \in {} |-> JNull]

\* ------------------------------------------------------------------ schema.py

\* field types
TStr == [k |-> "str"]
TInt == [k |-> "int", bounded |-> FALSE, ge |-> 0, le |-> 0]
TIntRange(lo, hi) == [k |-> "int", bounded |-> TRUE, ge |-> lo, le |-> hi]
TFloat == [k |-> "float"]
TBool == [k |-> "bool"]
TLiteral(S) == [k |-> "literal", of |-> S]
TList(T) == [k |-> "list", of |-> T]
TDict == [k |-> "dict"]
TModel(name) == [k |-> "model", name |-> name]

\* mutant: `f: Optional[T]`, without the default the field is required
OptRequired(T) == [type |-> T, nullable |-> TRUE, required |-> TRUE, factory |-> FALSE,
                   default |-> JNull]

\* `f: Optional[T] = None`
Opt(T) == [type |-> T, nullable |-> TRUE, required |-> FALSE, factory |-> FALSE,
           default |-> JNull]
\* `f: T` (no default)
Req(T) == [type |-> T, nullable |-> FALSE, required |-> TRUE, factory |-> FALSE,
           default |-> JNull]
\* `f: M = Field(default_factory=M)`
Sub(name) == [type |-> TModel(name), nullable |-> FALSE, required |-> FALSE,
              factory |-> TRUE, default |-> JNull]
\* `f: T = d`
Dflt(T, d) == [type |-> T, nullable |-> FALSE, required |-> FALSE, factory |-> FALSE,
               default |-> d]

EvidenceLevel == {"high", "moderate", "low"}

StudyMetadata ==
    [pmid |-> Opt(TStr), title |-> Opt(TStr), year |-> Opt(TInt),
     journal |-> Opt(TStr), doi |-> Opt(TStr), study_design |-> Opt(TStr),
     phase |-> Opt(TStr), sample_size_total |-> Opt(TInt),
     arms |-> Opt(TList(TStr)), comparator |-> Opt(TStr)]

Treatment ==
    [name |-> Opt(TStr),
     category |-> Opt(TLiteral({"Surgical", "Locoregional", "Systemic", "Palliative",
                                "Other"})),
     line_of_therapy |-> Opt(TStr), duration |-> Opt(TStr),
     combination |-> Opt(TBool), components |-> Opt(TList(TStr))]

TumorBurden ==
    [nodules |-> Opt(TLiteral({"single", "2-3", ">3", "not_reported"})),
     largest_nodule_cm |-> Opt(TFloat), vascular_invasion |-> Opt(TBool),
     extrahepatic_spread |-> Opt(TBool), afp_ng_ml |-> Opt(TFloat),
     afp_gt_400 |-> Opt(TBool)]

ChildPugh ==
    [bilirubin_mg_dl |-> Opt(TFloat), albumin_g_dl |-> Opt(TFloat),
     inr |-> Opt(TFloat),
     ascites |-> Opt(TLiteral({"none", "mild_controlled", "moderate_severe"})),
     encephalopathy |-> Opt(TLiteral({"none", "grade_1_2", "grade_3_4"})),
     class_letter |-> Opt(TLiteral({"A", "B", "C"})), score |-> Opt(TInt)]

PerformanceStatus == [ecog |-> Opt(TIntRange(0, 4))]

BCLCBaseline ==
    [tumor_burden |-> Sub("TumorBurden"), child_pugh |-> Sub("ChildPugh"),
     performance_status |-> Sub("PerformanceStatus")]

BCLC2025CUSE ==
    [mentioned |-> Dflt(TBool, JBool(FALSE)), cuse_criteria |-> Opt(TList(TStr)),
     personalized_factors |-> Opt(TList(TStr)), decision_logic |-> Opt(TStr)]

OutcomeMetric ==
    [value |-> Opt(TStr), ci |-> Opt(TStr), p_value |-> Opt(TStr),
     hr |-> Opt(TFloat), hr_ci |-> Opt(TStr), follow_up |-> Opt(TStr),
     evidence_section |-> Opt(TStr), evidence_page |-> Opt(TInt),
     table_figure |-> Opt(TStr), verbatim_excerpt |-> Opt(TStr)]

EvidenceSpan ==
    [field_path |-> Req(TStr), value_json |-> Req(TStr),
     evidence_section |-> Opt(TStr), evidence_page |-> Opt(TInt),
     table_figure |-> Opt(TStr), verbatim_excerpt |-> Opt(TStr),
     locator |-> Opt(TStr)]

\* class Results (Results, above, makes the records the derivation reads)
ResultsModel ==
    [response_criteria |-> Opt(TStr), os |-> Sub("OutcomeMetric"),
     pfs |-> Sub("OutcomeMetric"), orr |-> Sub("OutcomeMetric"),
     dcr |-> Sub("OutcomeMetric"), ttp |-> Sub("OutcomeMetric"),
     other |-> Opt(TDict)]

AdverseEvent ==
    [name |-> Opt(TStr), grade |-> Opt(TStr), frequency |-> Opt(TStr),
     notes |-> Opt(TStr)]

Safety ==
    [any_adverse_events_reported |-> Opt(TBool),
     grade_3_4_events |-> Opt(TList(TModel("AdverseEvent"))),
     saes |-> Opt(TList(TModel("AdverseEvent"))),
     discontinuation_due_to_toxicity |-> Opt(TStr),
     treatment_related_deaths |-> Opt(TStr), narrative |-> Opt(TStr)]

ExperimentArm ==
    [arm_name |-> Opt(TStr), treatment |-> Sub("Treatment"),
     bclc_baseline |-> Sub("BCLCBaseline"),
     bclc_stage_reported |-> Opt(TLiteral({"0", "A", "B", "C", "D"})),
     bclc_2025_cuse |-> Sub("BCLC2025CUSE"), results |-> Sub("Results"),
     safety |-> Sub("Safety")]

ExtractionOutput ==
    [study_metadata |-> Req(TModel("StudyMetadata")),
     experiments |-> Req(TList(TModel("ExperimentArm"))),
     evidence_level |-> Req(TLiteral(EvidenceLevel)),
     evidence_spans |-> Req(TList(TModel("EvidenceSpan")))]

\* the declared fields of a model class
Fields(name) ==
    CASE name = "StudyMetadata" -> StudyMetadata
      [] name = "Treatment" -> Treatment
      [] name = "TumorBurden" -> TumorBurden
      [] name = "ChildPugh" -> ChildPugh
      [] name = "PerformanceStatus" -> PerformanceStatus
      [] name = "BCLCBaseline" -> BCLCBaseline
      [] name = "BCLC2025CUSE" -> BCLC2025CUSE
      [] name = "OutcomeMetric" -> OutcomeMetric
      [] name = "EvidenceSpan" -> EvidenceSpan
      [] name = "Results" -> ResultsModel
      [] name = "AdverseEvent" -> AdverseEvent
      [] name = "Safety" -> Safety
      [] name = "ExperimentArm" -> ExperimentArm
      [] name = "ExtractionOutput" -> ExtractionOutput

\* mutant: extra="ignore", undeclared keys are dropped without error
ExtraIgnore(keys, declared) == {}

\* `model_config = ConfigDict(extra="forbid")`: the keys of an input object
\* that are errors, given the declared field names
ExtraForbid(keys, declared) == keys \ declared

\* the numerals among the strings of the documents: pydantic's lax mode reads a
\* str as an int when it is one
Numerals == [s \in {"2023"} |-> 2023]

\* a value, validated, with the errors found in it: <<location, error type>>
Valid(val) == [errors |-> {}, val |-> val]
Invalid(loc, type) == [errors |-> {<<loc, type>>}, val |-> JNull]

\* validation of a scalar or Dict[str, Any] input x against field type T (lax mode)
ValidateLeaf(x, T, loc) ==
    CASE T.k = "str" ->
            IF x.t = "str" THEN Valid(x) ELSE Invalid(loc, "string_type")
      [] T.k = "int" ->
            LET n == CASE x.t = "int" -> Valid(x)
                       [] x.t = "bool" -> Valid(JInt(IF x.b THEN 1 ELSE 0))
                       [] x.t = "float" ->
                            IF x.x[2] = 0 THEN Valid(JInt(x.x[1]))
                            ELSE Invalid(loc, "int_from_float")
                       [] x.t = "str" ->
                            IF x.s \in DOMAIN Numerals THEN Valid(JInt(Numerals[x.s]))
                            ELSE Invalid(loc, "int_parsing")
                       [] OTHER -> Invalid(loc, "int_type")
            IN  IF n.errors = {} /\ T.bounded /\ n.val.n < T.ge
                THEN Invalid(loc, "greater_than_equal")
                ELSE IF n.errors = {} /\ T.bounded /\ n.val.n > T.le
                THEN Invalid(loc, "less_than_equal")
                ELSE n
      [] T.k = "float" ->
            CASE x.t = "float" -> Valid(x)
              [] x.t = "int" -> Valid(JFloat(<<x.n, 0>>))
              [] x.t = "bool" -> Valid(JFloat(<<IF x.b THEN 1 ELSE 0, 0>>))
              [] x.t = "str" ->
                    IF x.s \in DOMAIN Numerals THEN Valid(JFloat(<<Numerals[x.s], 0>>))
                    ELSE Invalid(loc, "float_parsing")
              [] OTHER -> Invalid(loc, "float_type")
      [] T.k = "bool" ->
            CASE x.t = "bool" -> Valid(x)
              [] x.t = "int" ->
                    IF x.n \in {0, 1} THEN Valid(JBool(x.n = 1))
                    ELSE Invalid(loc, "bool_parsing")
              [] x.t = "str" ->
                    IF x.s \in {"1", "on", "t", "true", "y", "yes"} THEN Valid(JBool(TRUE))
                    ELSE IF x.s \in {"0", "off", "f", "false", "n", "no"}
                    THEN Valid(JBool(FALSE))
                    ELSE Invalid(loc, "bool_parsing")
              [] OTHER -> Invalid(loc, "bool_type")
      [] T.k = "literal" ->
            IF x.t = "str" /\ x.s \in T.of THEN Valid(x)
            ELSE Invalid(loc, "literal_error")
      [] T.k = "dict" ->
            IF x.t = "obj" THEN Valid(x) ELSE Invalid(loc, "dict_type")

\* X.model_validate(x) for a model class X, and the validation of x against any
\* field type T: every error of the input is collected, not only the first.
\* The value of a model is tagged "model", its fields all there.
RECURSIVE Validate(_, _, _)
Validate(x, T, loc) ==
    CASE T.k = "model" ->
            IF x.t # "obj" THEN Invalid(loc, "model_type")
            ELSE LET declared == Fields(T.name)
                     keys == DOMAIN x.f
                     field == [k \in DOMAIN declared |->
                        LET f == declared[k]
                        IN  IF k \in keys
                            THEN IF f.nullable /\ x.f[k].t = "null" THEN Valid(JNull)
                                 ELSE Validate(x.f[k], f.type, Append(loc, k))
                            ELSE IF f.required THEN Invalid(Append(loc, k), "missing")
                            ELSE IF f.factory
                                 THEN Validate(JObj(NoKeys), f.type, Append(loc, k))
                            ELSE Valid(f.default)]
                 IN  [errors |->
                        {<<Append(loc, k), "extra_forbidden">> :
                            k \in ExtraForbid(keys, DOMAIN declared)}
                            \cup UNION {field[k].errors : k \in DOMAIN declared},
                      val |-> [t |-> "model", name |-> T.name,
                               f |-> [k \in DOMAIN declared |-> field[k].val]]]
      [] T.k = "list" ->
            IF x.t # "list" THEN Invalid(loc, "list_type")
            ELSE LET item == [n \in 1..Len(x.q) |->
                                Validate(x.q[n], T.of, Append(loc, ToString(n - 1)))]
                 IN  [errors |-> UNION {item[n].errors : n \in 1..Len(x.q)},
                      val |-> JList([n \in 1..Len(x.q) |-> item[n].val])]
      [] OTHER -> ValidateLeaf(x, T, loc)

\* ExtractionOutput.model_validate(extracted_json)
model_validate(extracted_json) ==
    Validate(extracted_json, TModel("ExtractionOutput"), <<>>)

\* model.model_dump(): the model as dicts, lists and scalars
RECURSIVE model_dump(_)
model_dump(val) ==
    CASE val.t = "model" -> JObj([k \in DOMAIN val.f |-> model_dump(val.f[k])])
      [] val.t = "list" -> JList([n \in 1..Len(val.q) |-> model_dump(val.q[n])])
      [] OTHER -> val

\* ------------------------------------------------------- json.dumps, json.loads

\* A JSON text is the sequence of its tokens: the six structural characters, the
\* scalars (a string, a number, true, false, null), and "word" for text that is
\* no JSON token.
Tok(k) == [k |-> k]
Scalar(x) == [k |-> "scalar", v |-> x]
Word == Tok("word")

\* the elements of a set, one after the other
RECURSIVE SetToSeq(_)
SetToSeq(S) ==
    IF S = {} THEN <<>>
    ELSE LET x == CHOOSE x \in S : TRUE IN <<x>> \o SetToSeq(S \ {x})

\* json.dumps(x): the text of a value
RECURSIVE json_dumps(_)
RECURSIVE DumpMembers(_, _)
RECURSIVE DumpElements(_, _)
json_dumps(x) ==
    CASE x.t = "obj" -> <<Tok("{")>> \o DumpMembers(x.f, SetToSeq(DOMAIN x.f))
                            \o <<Tok("}")>>
      [] x.t = "list" -> <<Tok("[")>> \o DumpElements(x.q, 1) \o <<Tok("]")>>
      [] OTHER -> <<Scalar(x)>>
DumpMembers(f, keys) ==
    IF keys = <<>> THEN <<>>
    ELSE <<Scalar(JStr(Head(keys))), Tok(":")>> \o json_dumps(f[Head(keys)])
            \o (IF Tail(keys) = <<>> THEN <<>> ELSE <<Tok(",")>>)
            \o DumpMembers(f, Tail(keys))
DumpElements(q, n) ==
    IF n > Len(q) THEN <<>>
    ELSE json_dumps(q[n]) \o (IF n = Len(q) THEN <<>> ELSE <<Tok(",")>>)
            \o DumpElements(q, n + 1)

\* the outcome of a decoding step: a value and the place after it, or the
\* JSONDecodeError message and the place it is raised at
Decoded(val, next) == [ok |-> TRUE, val |-> val, next |-> next, msg |-> ""]
DecodeError(msg, pos) == [ok |-> FALSE, val |-> JNull, next |-> pos, msg |-> msg]

Is(toks, i, k) == i <= Len(toks) /\ toks[i].k = k
IsString(toks, i) == Is(toks, i, "scalar") /\ toks[i].v.t = "str"

\* json.decoder: scan_once, JSONObject and JSONArray, from token i
RECURSIVE ParseValue(_, _)
RECURSIVE ParseMembers(_, _, _)
RECURSIVE ParseElements(_, _, _)
ParseValue(toks, i) ==
    IF Is(toks, i, "scalar") THEN Decoded(toks[i].v, i + 1)
    ELSE IF Is(toks, i, "{")
         THEN IF Is(toks, i + 1, "}") THEN Decoded(JObj(NoKeys), i + 2)
              ELSE ParseMembers(toks, i + 1, NoKeys)
    ELSE IF Is(toks, i, "[")
         THEN IF Is(toks, i + 1, "]") THEN Decoded(JList(<<>>), i + 2)
              ELSE ParseElements(toks, i + 1, <<>>)
    ELSE DecodeError("Expecting value", i)
\* the members of an object from its i-th token on, `f` the pairs read so far
\* (a key read again replaces the earlier pair)
ParseMembers(toks, i, f) ==
    IF ~IsString(toks, i)
    THEN DecodeError("Expecting property name enclosed in double quotes", i)
    ELSE IF ~Is(toks, i + 1, ":") THEN DecodeError("Expecting ':' delimiter", i + 1)
    ELSE LET key == toks[i].v.s
             r == ParseValue(toks, i + 2)
             g == [k \in DOMAIN f \cup {key} |-> IF k = key THEN r.val ELSE f[k]]
         IN  IF ~r.ok THEN r
             ELSE IF Is(toks, r.next, "}") THEN Decoded(JObj(g), r.next + 1)
             ELSE IF Is(toks, r.next, ",") THEN ParseMembers(toks, r.next + 1, g)
             ELSE DecodeError("Expecting ',' delimiter", r.next)
\* the elements of an array from its i-th token on, `q` those read so far
ParseElements(toks, i, q) ==
    LET r == ParseValue(toks, i)
    IN  IF ~r.ok THEN r
        ELSE IF Is(toks, r.next, "]") THEN Decoded(JList(Append(q, r.val)), r.next + 1)
        ELSE IF Is(toks, r.next, ",") THEN ParseElements(toks, r.next + 1, Append(q, r.val))
        ELSE DecodeError("Expecting ',' delimiter", r.next)

\* json.loads(s): the value of the whole text, or a JSONDecodeError
json_loads(s) ==
    LET r == ParseValue(s, 1)
    IN  IF r.ok /\ r.next <= Len(s) THEN DecodeError("Extra data", r.next) ELSE r

\* the messages of json.JSONDecodeError
JSONDecodeMessages ==
    {"Expecting value", "Expecting property name enclosed in double quotes",
     "Expecting ':' delimiter", "Expecting ',' delimiter", "Extra data"}

\* -------------------------------------------------------------- extractor.py

\* the dict that _mock_llm_call returns the json.dumps of
mock_response ==
    JObj([
      study_metadata |-> JObj([
        pmid |-> JStr("12345678"),
        title |-> JStr("Mock Study: Lenvatinib vs. Sorafenib for HCC"),
        year |-> JInt(2023),
        journal |-> JStr("Journal of Mock Oncology"),
        doi |-> JStr("10.1000/jmo.2023.001"),
        study_design |-> JStr("RCT"),
        phase |-> JStr("Phase III"),
        sample_size_total |-> JInt(954),
        arms |-> JList(<<
          JStr("Lenvatinib"),
          JStr("Sorafenib") >>),
        comparator |-> JStr("Sorafenib") ]),
      experiments |-> JList(<<
        JObj([
          arm_name |-> JStr("Lenvatinib"),
          treatment |-> JObj([
            name |-> JStr("Lenvatinib"),
            category |-> JStr("Systemic"),
            line_of_therapy |-> JStr("first-line"),
            duration |-> JStr("Until progression or unacceptable toxicity"),
            combination |-> JBool(FALSE),
            components |-> JNull ]),
          bclc_baseline |-> JObj([
            tumor_burden |-> JObj([
              nodules |-> JStr(">3"),
              largest_nodule_cm |-> JNull,
              vascular_invasion |-> JBool(TRUE),
              extrahepatic_spread |-> JBool(TRUE),
              afp_ng_ml |-> JNull,
              afp_gt_400 |-> JNull ]),
            child_pugh |-> JObj([
              bilirubin_mg_dl |-> JNull,
              albumin_g_dl |-> JNull,
              inr |-> JNull,
              ascites |-> JNull,
              encephalopathy |-> JNull,
              class_letter |-> JStr("A"),
              score |-> JInt(5) ]),
            performance_status |-> JObj([
              ecog |-> JInt(1) ]) ]),
          bclc_stage_reported |-> JStr("C"),
          bclc_2025_cuse |-> JObj([
            mentioned |-> JBool(FALSE),
            cuse_criteria |-> JNull,
            personalized_factors |-> JNull,
            decision_logic |-> JNull ]),
          results |-> JObj([
            response_criteria |-> JStr("mRECIST"),
            os |-> JObj([
              value |-> JChars(<<"1", "3", ".", "6", " ", "m", "o", "n", "t", "h", "s">>),
              ci |-> JNull,
              p_value |-> JNull,
              follow_up |-> JNull ]),
            pfs |-> JObj([
              value |-> JChars(<<"7", ".", "4", " ", "m", "o", "n", "t", "h", "s">>),
              ci |-> JNull,
              p_value |-> JNull,
              follow_up |-> JNull ]),
            orr |-> JObj([
              value |-> JChars(<<"2", "4", ".", "1", "%">>),
              ci |-> JNull,
              p_value |-> JNull,
              follow_up |-> JNull ]),
            dcr |-> JObj([
              value |-> JNull,
              ci |-> JNull,
              p_value |-> JNull,
              follow_up |-> JNull ]),
            ttp |-> JObj([
              value |-> JNull,
              ci |-> JNull,
              p_value |-> JNull,
              follow_up |-> JNull ]),
            other |-> JNull ]),
          safety |-> JObj([
            any_adverse_events_reported |-> JBool(TRUE),
            grade_3_4_events |-> JList(<<
              JObj([
                name |-> JStr("Hypertension"),
                grade |-> JNull,
                frequency |-> JStr("42%"),
                notes |-> JNull ]),
              JObj([
                name |-> JStr("Diarrhea"),
                grade |-> JNull,
                frequency |-> JStr("8%"),
                notes |-> JNull ]) >>),
            saes |-> JNull,
            discontinuation_due_to_toxicity |-> JNull,
            treatment_related_deaths |-> JNull,
            narrative |-> JNull ]) ]) >>),
      evidence_level |-> JStr("high") ])

\* `return json.dumps(mock_response)`
_mock_llm_call == json_dumps(mock_response)

\* the list index a path element stands for
IsIndex(key, n) == ToString(n - 1) = key

\* the value at a path of a document
RECURSIVE GetAt(_, _)
GetAt(x, path) ==
    IF path = <<>> THEN x
    ELSE IF x.t = "list"
         THEN GetAt(x.q[CHOOSE n \in 1..Len(x.q) : IsIndex(Head(path), n)], Tail(path))
         ELSE GetAt(x.f[Head(path)], Tail(path))

\* the document with the value at a path set (the key added if it is not there)
RECURSIVE SetAt(_, _, _)
SetAt(x, path, val) ==
    IF path = <<>> THEN val
    ELSE IF x.t = "list"
         THEN JList([n \in 1..Len(x.q) |->
                        IF IsIndex(Head(path), n) THEN SetAt(x.q[n], Tail(path), val)
                        ELSE x.q[n]])
         ELSE JObj([k \in DOMAIN x.f \cup {Head(path)} |->
                        IF k = Head(path)
                        THEN SetAt(IF k \in DOMAIN x.f THEN x.f[k] ELSE JObj(NoKeys),
                                   Tail(path), val)
                        ELSE x.f[k]])

\* the document without the key a path ends in
RECURSIVE RemoveAt(_, _)
RemoveAt(x, path) ==
    IF x.t = "list"
    THEN JList([n \in 1..Len(x.q) |->
                    IF IsIndex(Head(path), n) THEN RemoveAt(x.q[n], Tail(path))
                    ELSE x.q[n]])
    ELSE IF Len(path) = 1 THEN JObj([k \in DOMAIN x.f \ {Head(path)} |-> x.f[k]])
    ELSE JObj([k \in DOMAIN x.f |->
                    IF k = Head(path) THEN RemoveAt(x.f[k], Tail(path)) ELSE x.f[k]])

HasAt(x, path) ==
    LET parent == GetAt(x, SubSeq(path, 1, Len(path) - 1))
    IN  path[Len(path)] \in DOMAIN parent.f

\* the paths of the objects of a document, the root's <<>> included
RECURSIVE ObjPaths(_, _)
ObjPaths(x, loc) ==
    CASE x.t = "obj" ->
            {loc} \cup UNION {ObjPaths(x.f[k], Append(loc, k)) : k \in DOMAIN x.f}
      [] x.t = "list" ->
            UNION {ObjPaths(x.q[n], Append(loc, ToString(n - 1))) : n \in 1..Len(x.q)}
      [] OTHER -> {}

\* the types of the scalar fields
ScalarKinds == {"str", "int", "float", "bool", "literal"}

\* the scalar fields the schema declares for the records of a document: each
\* with its path and its declaration, whether the document has the key or not
RECURSIVE LeafFields(_, _, _)
LeafFields(x, T, loc) ==
    CASE T.k = "model" /\ x.t = "obj" ->
            UNION {LET f == Fields(T.name)[k]
                   IN  IF f.type.k \in ScalarKinds
                       THEN {[path |-> Append(loc, k), field |-> f]}
                       ELSE IF k \in DOMAIN x.f
                            THEN LeafFields(x.f[k], f.type, Append(loc, k))
                            ELSE {}
                   : k \in DOMAIN Fields(T.name)}
      [] T.k = "list" /\ x.t = "list" ->
            UNION {LeafFields(x.q[n], T.of, Append(loc, ToString(n - 1)))
                   : n \in 1..Len(x.q)}
      [] OTHER -> {}

\* a document as the prompt asks for it: the mock's, with a second arm for the
\* comparator it names, an "other" result, and the evidence spans
golden_response ==
    LET arm == [n \in 1..2 |-> <<"experiments", ToString(n - 1)>>]
        months == <<" ", "m", "o", "n", "t", "h", "s">>
        spans == JList(<<
            JObj([field_path |-> JStr("experiments[0].results.os.value"),
                  value_json |-> JStr("13.6 months"),
                  evidence_section |-> JStr("Results"), evidence_page |-> JInt(4),
                  table_figure |-> JStr("Table 2"),
                  verbatim_excerpt |-> JStr("median OS was 13.6 months"),
                  locator |-> JNull]),
            JObj([field_path |-> JStr("study_metadata.pmid"),
                  value_json |-> JStr("12345678")]) >>)
        sorafenib == JObj([
            arm_name |-> JStr("Sorafenib"),
            results |-> JObj([
                os |-> JObj([value |-> JChars(<<"1", "2", ".", "3">> \o months),
                             hr |-> JFloat(<<92, 2>>)])])])
        d1 == SetAt(mock_response, <<"evidence_spans">>, spans)
        d2 == SetAt(d1, arm[1] \o <<"results", "other">>,
                    JObj([median_dor |-> JStr("8.1 months")]))
    IN  SetAt(d2, <<"experiments">>, JList(Append(d2.f.experiments.q, sorafenib)))

\* the key that stands for any key no model declares
Undeclared == "unexpected"

\* a document with one more key in one of its objects
ExtraKeyDocs(doc) ==
    {SetAt(doc, Append(p, Undeclared), JStr("x")) : p \in ObjPaths(doc, <<>>)}

\* a document with one scalar field left out, or null
MissingLeafDocs(doc) ==
    LET leaves == {l.path : l \in LeafFields(doc, TModel("ExtractionOutput"), <<>>)}
    IN  {RemoveAt(doc, p) : p \in leaves} \cup {SetAt(doc, p, JNull) : p \in leaves}

\* a document with a value of a wrong type, out of range, or read leniently
MistypedDocs(doc) ==
    LET ecog == <<"experiments", "0", "bclc_baseline", "performance_status", "ecog">>
    IN  {SetAt(doc, ecog, JInt(5)), SetAt(doc, ecog, JInt(0)),
         SetAt(doc, ecog, JStr("one")),
         SetAt(doc, <<"evidence_level">>, JStr("HIGH")),
         SetAt(doc, <<"study_metadata", "year">>, JStr("2023")),
         SetAt(doc, <<"study_metadata", "year">>, JList(<<>>)),
         SetAt(doc, <<"experiments">>, JObj(NoKeys)),
         JList(<<doc>>), JNull}

\* texts json.loads does not take: none, prose around the document, a document
\* cut short, a trailing comma, a key without its value
MalformedOutputs(text) ==
    {<<>>, <<Word>> \o text, text \o <<Word>>, SubSeq(text, 1, Len(text) - 1),
     SubSeq(text, 1, Len(text) - 1) \o <<Tok(","), Tok("}")>>,
     SubSeq(text, 1, 2), <<Tok("{"), Scalar(JInt(1))>>, <<Tok("["), Scalar(JNull)>>}

\* what the text-generation collaborator may return: what _mock_llm_call does,
\* and what a collaborator patched in for it could
LlmOutputs ==
    {_mock_llm_call}
        \cup {json_dumps(d) : d \in {golden_response} \cup ExtraKeyDocs(golden_response)
                                  \cup MissingLeafDocs(golden_response)
                                  \cup MistypedDocs(golden_response)}
        \cup MalformedOutputs(json_dumps(golden_response))

\* ------------------------------------------------------------------ inputs

Results(os, pfs, ttp) == [os |-> [value |-> os], pfs |-> [value |-> pfs],
                          ttp |-> [value |-> ttp]]

Span(path, value, page) ==
    [field_path |-> path, value_json |-> value, evidence_section |-> "Results",
     evidence_page |-> page, table_figure |-> None, verbatim_excerpt |-> "quote",
     locator |-> None]

\* What a source article contributes to a call besides the identity keys: the
\* descriptive metadata, the arms, the evidence spans, and the run-time
\* parameters pdf_path and article_type.
SrcTrial ==
    [title |-> "T1", journal |-> "J1", year |-> "2023", comparator |-> "S",
     experiments |->
        << [arm_name |-> "L",
            results |-> Results(<<"1", "3", ".", "6", " ", "m">>, NoneStr, NoneStr)],
           [arm_name |-> "S",
            results |-> Results(<<"1", "2", ".", "3", " ", "m">>, NoneStr, NoneStr)] >>,
     evidence_level |-> "high",
     evidence_spans |-> << Span("experiments[0].results.os.value", "13.6 m", "4"),
                           Span("study_metadata.pmid", "P1", "1") >>,
     pdf_path |-> "a.pdf", article_type |-> "TARE"]

\* a single-arm study: no comparator, one arm, one evidence span
SrcPilot ==
    [title |-> "T2", journal |-> "J1", year |-> "2024", comparator |-> None,
     experiments |->
        << [arm_name |-> "L", results |-> Results(<<"9">>, NoneStr, NoneStr)] >>,
     evidence_level |-> "moderate",
     evidence_spans |-> << Span("experiments[0].results.os.value", "9", "2") >>,
     pdf_path |-> "c.pdf", article_type |-> "unknown"]

SrcBare ==
    [title |-> None, journal |-> None, year |-> None, comparator |-> None,
     experiments |-> <<>>,
     evidence_level |-> "low",
     evidence_spans |-> <<>>,
     pdf_path |-> "b.txt", article_type |-> "unknown"]

\* the arguments of one insert_extraction call
Call(pmid, doi, src) ==
    [extraction_output |->
        [study_metadata |-> [pmid |-> pmid, doi |-> doi, title |-> src.title,
                             journal |-> src.journal, year |-> src.year,
                             comparator |-> src.comparator],
         experiments |-> src.experiments,
         evidence_level |-> src.evidence_level,
         evidence_spans |-> src.evidence_spans],
     pdf_path |-> src.pdf_path,
     article_type |-> src.article_type,
     schema_version |-> "1.0",
     extractor_bundle_version |-> "0.1.0"]

Pmids == {None, "", "P1", "P2"}
Dois == {None, "D1"}

\* the calls of the sequential runs: every identity key pair, on either source
SeqCalls == {Call(p, d, src) : p \in Pmids, d \in Dois, src \in {SrcTrial, SrcBare}}

\* the calls of the concurrent runs: racing writers of one article
ConcCalls == {Call(p, d, SrcPilot) : p \in {"P1"}, d \in {None, "D1"}}

\* the metric values of the derivation runs: null, empty, blank, text, numbers
\* with and without unit, padded, and text before the number
ArmNames == {None, "", "L", "S", "N/A"}
Comparators == {None, "", "S", "N/A"}
ResultProfiles ==
    { Results(NoneStr, NoneStr, NoneStr),
      Results(<<"1", "3", ".", "6", " ", "m">>, <<>>, <<" ", " ">>),
      Results(<<"m">>, <<" ", "7", ".", "0">>, <<"m", " ", "7">>),
      Results(<<"1", "2", ".", "3">>, <<".">>, <<"5", " ">>) }
Arms == {[arm_name |-> a, results |-> r] : a \in ArmNames, r \in ResultProfiles}

RECURSIVE SeqsUpTo(_, _)
SeqsUpTo(S, n) ==
    IF n = 0 THEN {<<>>}
    ELSE LET shorter == SeqsUpTo(S, n - 1)
         IN  shorter \cup {Append(q, x) : q \in {r \in shorter : Len(r) = n - 1}, x \in S}

\* arms that carry a name and a numeric OS value, for the documents with more
\* arms than MaxArms: several arms of one name, beside others
NamedArms ==
    {[arm_name |-> a, results |-> r] :
        a \in {"L", "S"},
        r \in { Results(<<"1", "3", ".", "6", " ", "m">>, <<>>, <<" ", " ">>),
                Results(<<"1", "2", ".", "3">>, <<".">>, <<"5", " ">>) }}

OutcomeArmLists ==
    SeqsUpTo(Arms, MaxArms)
        \cup {q \in SeqsUpTo(NamedArms, MaxArms + 1) : Len(q) = MaxArms + 1}

OutcomeCalls ==
    {[Call("P1", None, SrcPilot) EXCEPT
        !.extraction_output.study_metadata.comparator = c,
        !.extraction_output.experiments = exps]
       : c \in Comparators, exps \in OutcomeArmLists}

\* ------------------------------------- pipeline.py, lambda_function.py: inputs

\* the files of the runs: whether Path.is_file(), and the text open().read()
\* gives, or fitz for a PDF, which extract_text_from_pdf replaces by "" when
\* fitz raises
Files ==
    [f \in {"a.txt", "A.TXT", "empty.txt", "gone.txt", "a.pdf", "a.docx"} |->
        [is_file |-> f # "gone.txt",
         texts |-> CASE f = "empty.txt" -> {""}
                     [] f = "a.pdf" -> {"article", ""}
                     [] OTHER -> {"article"}]]

\* Path.suffix.lower()
SuffixLower(f) ==
    CASE f \in {"a.txt", "A.TXT", "empty.txt", "gone.txt"} -> ".txt"
      [] f = "a.pdf" -> ".pdf"
      [] f = "a.docx" -> ".docx"

\* the events the handler is invoked with (the key file_path may be missing)
Events ==
    {[file_path |-> f, persist_to_db |-> p, article_type |-> "TARE"] :
        f \in DOMAIN Files \cup {None}, p \in BOOLEAN}

\* an exception: its class, and what str() of it says (a JSONDecodeError the
\* message and the place, a ValidationError the errors it enumerates)
Exc(type, text) == [type |-> type, text |-> text, at |-> 0, errors |-> {}]
NoExc == Exc("", "")
JSONDecodeError(msg, pos) == [type |-> "JSONDecodeError", text |-> msg, at |-> pos,
                              errors |-> {}]
ValidationError(errors) ==
    [type |-> "ValidationError", text |-> "validation errors for ExtractionOutput",
     at |-> Cardinality(errors), errors |-> errors]

\* json.JSONDecodeError and pydantic's ValidationError are subclasses of
\* ValueError: `except ValueError` catches them
IsValueError(exc) == exc.type \in {"ValueError", "JSONDecodeError", "ValidationError"}

\* str(exc)
Str(exc) == [text |-> exc.text, at |-> exc.at, errors |-> exc.errors]

\* the fields of a validated ExtractionOutput that insert_extraction reads, in
\* the form the statements above read them (None for a null, an int by its
\* numeral)
Py(x) == IF x.t = "null" THEN None ELSE IF x.t = "int" THEN ToString(x.n) ELSE x.s
PyChars(x) == IF x.t = "null" THEN NoneStr ELSE x.c

AsExtractionOutput(data) ==
    LET meta == data.f.study_metadata.f
        exps == data.f.experiments.q
        spans == data.f.evidence_spans.q
    IN  [study_metadata |->
            [pmid |-> Py(meta.pmid), doi |-> Py(meta.doi), title |-> Py(meta.title),
             journal |-> Py(meta.journal), year |-> Py(meta.year),
             comparator |-> Py(meta.comparator)],
         experiments |->
            [n \in 1..Len(exps) |->
                LET res == exps[n].f.results.f
                IN  [arm_name |-> Py(exps[n].f.arm_name),
                     results |-> Results(PyChars(res.os.f.value),
                                         PyChars(res.pfs.f.value),
                                         PyChars(res.ttp.f.value))]],
         evidence_level |-> data.f.evidence_level.s,
         evidence_spans |->
            [n \in 1..Len(spans) |->
                [field_path |-> Py(spans[n].f.field_path),
                 value_json |-> Py(spans[n].f.value_json),
                 evidence_section |-> Py(spans[n].f.evidence_section),
                 evidence_page |-> Py(spans[n].f.evidence_page),
                 table_figure |-> Py(spans[n].f.table_figure),
                 verbatim_excerpt |-> Py(spans[n].f.verbatim_excerpt),
                 locator |-> Py(spans[n].f.locator)]]]

\* ------------------------------------------------------------------- state

VARIABLES
    mode,               \* which calls the callers make: "seq", "conc", "outcomes"
    budget,             \* insert_extraction calls the callers may still begin
    articles,           \* committed rows of table articles (a set of records)
    extractions,        \* committed rows of table extractions
    evidence_spans,     \* committed rows of table evidence_spans, in insert order
    outcomes_survival,  \* committed rows of table outcomes_survival, in insert order
    clock,              \* the store's NOW()
    pc,                 \* per session: where its insert_extraction call stands
    call,               \* per session: the arguments of its call
    local,              \* per session: article_id, extraction_id, the rows still
                        \*   to write, and the value returned
    tx,                 \* per session: the uncommitted writes of its transaction
    session,            \* per session: the operations that ended/closed its session
    pre,                \* per session: the committed tables when its call began
    proc                \* the run of the Lambda handler and of process_article

vars == <<mode, budget, articles, extractions, evidence_spans, outcomes_survival,
          clock, pc, call, local, tx, session, pre, proc>>

store == <<articles, extractions, evidence_spans, outcomes_survival>>

NoCall == [extraction_output |-> None]
NoLocal == [article_id |-> 0, extraction_id |-> 0, todo |-> <<>>, returned |-> 0,
            failed |-> ""]
NoTx == [began |-> 0, articles_ins |-> {}, articles_upd |-> {}, extractions |-> {},
         evidence_spans |-> <<>>, outcomes_survival |-> <<>>]
NoPre == <<>>

\* ------------------------------------- pipeline.py, lambda_function.py: a run

NoEvent == [file_path |-> None, persist_to_db |-> FALSE, article_type |-> None]
NoDecoded == Decoded(JNull, 0)
NoResponse == [statusCode |-> 0, body |-> <<>>]
NoProc ==
    [pc |-> "idle",           \* where the handler's run stands
     event |-> NoEvent,       \* the event it was invoked with
     text |-> "",             \* process_article: text
     llm_calls |-> 0,         \* calls of the text-generation collaborator
     llm_output |-> <<>>,     \* extract_structured_data: llm_output
     decoded |-> NoDecoded,   \*   extracted_json, or the error of json.loads
     data |-> JNull,          \*   validated_data
     exc |-> NoExc,           \* the exception that left process_article
     raised_in |-> "",        \*   and the function that raised it
     response |-> NoResponse] \* what the handler returned

\* the arguments process_article calls db.insert_extraction with
PipelineCall ==
    [extraction_output |-> AsExtractionOutput(proc.data),
     pdf_path |-> proc.event.file_path,
     article_type |-> proc.event.article_type,
     schema_version |-> "1.0",
     extractor_bundle_version |-> "0.1.0"]

Inputs(m) ==
    CASE m = "seq" -> SeqCalls
      [] m = "conc" -> ConcCalls
      [] m = "outcomes" -> OutcomeCalls
      [] m = "pipeline" -> IF proc.pc = "persist" THEN {PipelineCall} ELSE {}

\* the sessions callers use: they are single-threaded and synchronous (one
\* call at a time) except in the concurrent runs
Callers(m) == IF m = "conc" THEN Sessions ELSE {1}


InitWith(m, n) ==
    /\ mode = m
    /\ budget = n
    /\ articles = {}
    /\ extractions = {}
    /\ evidence_spans = <<>>
    /\ outcomes_survival = <<>>
    /\ clock = 0
    /\ pc = [s \in Sessions |-> "idle"]
    /\ call = [s \in Sessions |-> NoCall]
    /\ local = [s \in Sessions |-> NoLocal]
    /\ tx = [s \in Sessions |-> NoTx]
    /\ session = [s \in Sessions |-> <<>>]
    /\ pre = [s \in Sessions |-> NoPre]
    /\ proc = NoProc

Init == InitWith("seq", MaxCalls)
InitConc == InitWith("conc", MaxConcCalls)
InitOutcomes == InitWith("outcomes", 1)
InitPipeline == InitWith("pipeline", 0)

\* ---------------------------------------------------------- get_db_session

\* a caller calls insert_extraction: get_engine() succeeds, Session() is made
Begin(s) ==
    /\ pc[s] = "idle"
    /\ budget > 0
    /\ s \in Callers(mode)
    /\ \E c \in Inputs(mode) :
        /\ call' = [call EXCEPT ![s] = c]
    /\ budget' = budget - 1
    /\ clock' = clock + 1
    /\ tx' = [tx EXCEPT ![s] = [NoTx EXCEPT !.began = clock + 1]]
    /\ local' = [local EXCEPT ![s] = NoLocal]
    /\ session' = [session EXCEPT ![s] = <<"open">>]
    /\ pre' = [pre EXCEPT ![s] = store]
    /\ pc' = [pc EXCEPT ![s] = "lookup"]
    /\ UNCHANGED <<mode, proc, store>>

\* get_engine() raises (DATABASE_URL is not set): no session is made
EngineUnavailable(s) ==
    /\ pc[s] = "idle"
    /\ budget > 0
    /\ s \in Callers(mode)
    /\ \E c \in Inputs(mode) :
        /\ call' = [call EXCEPT ![s] = c]
    /\ budget' = budget - 1
    /\ pre' = [pre EXCEPT ![s] = store]
    /\ pc' = [pc EXCEPT ![s] = "raised"]
    /\ UNCHANGED <<mode, proc, store, clock, local, tx, session>>

\* the statements of the with-body, and the commit after it
BodyPcs == {"lookup", "upsert", "extraction", "spans", "outcomes"}

\* a statement of the body, or session.commit(), raises: the body's frame is
\* left, the exception (here: where it was raised) reaches the except clause
Fail(s) ==
    /\ pc[s] \in BodyPcs \cup {"commit"}
    /\ pc' = [pc EXCEPT ![s] = "except"]
    /\ local' = [local EXCEPT ![s] = [NoLocal EXCEPT !.failed = pc[s]]]
    /\ UNCHANGED <<mode, proc, budget, store, clock, call, tx, session, pre>>

\* mutant: SET col = COALESCE(:col, col), a null never overwrites
ApplyUpdatesCoalesce(rows, upd) ==
    {IF \E u \in upd : u.id = a.id
     THEN LET u == CHOOSE u \in upd : u.id = a.id
              Keep(new, old) == IF new = None THEN old ELSE new
          IN  [a EXCEPT !.pmid = Keep(u.pmid, a.pmid), !.doi = Keep(u.doi, a.doi),
                        !.title = Keep(u.title, a.title),
                        !.journal = Keep(u.journal, a.journal),
                        !.year = Keep(u.year, a.year),
                        !.updated_at = u.updated_at]
     ELSE a : a \in rows}

\* the rows of articles with the session's pending updates applied
ApplyUpdates(rows, upd) ==
    {IF \E u \in upd : u.id = a.id
     THEN LET u == CHOOSE u \in upd : u.id = a.id
          IN  [a EXCEPT !.pmid = u.pmid, !.doi = u.doi, !.title = u.title,
                        !.journal = u.journal, !.year = u.year,
                        !.updated_at = u.updated_at]
     ELSE a : a \in rows}

\* mutant: INSERT ... ON CONFLICT DO NOTHING on pmid and doi
InsertArticleRowsOnConflictSkip(rows, ins) ==
    rows \cup {r \in ins : \A a \in rows :
                    /\ ~(Truthy(r.pmid) /\ a.pmid = r.pmid)
                    /\ ~(Truthy(r.doi) /\ a.doi = r.doi)}

\* INSERT INTO articles: the table with the row added
InsertArticleRows(rows, ins) == rows \cup ins

\* session.commit() of the body's writes
Commit(s) ==
    /\ pc[s] = "commit"
    /\ articles' = InsertArticleRows(ApplyUpdates(articles, tx[s].articles_upd),
                                     tx[s].articles_ins)
    /\ extractions' = extractions \cup tx[s].extractions
    /\ evidence_spans' = evidence_spans \o tx[s].evidence_spans
    /\ outcomes_survival' = outcomes_survival \o tx[s].outcomes_survival
    /\ tx' = [tx EXCEPT ![s] = NoTx]
    /\ session' = [session EXCEPT ![s] = Append(@, "commit")]
    /\ local' = [local EXCEPT ![s].returned = local[s].extraction_id]
    /\ pc' = [pc EXCEPT ![s] = "finally"]
    /\ UNCHANGED <<mode, proc, budget, clock, call, pre>>

\* mutant: the except clause ends the transaction without discarding its writes
RollbackKeepsWrites(s) ==
    /\ pc[s] = "except"
    /\ articles' = ApplyUpdates(articles, tx[s].articles_upd) \cup tx[s].articles_ins
    /\ extractions' = extractions \cup tx[s].extractions
    /\ evidence_spans' = evidence_spans \o tx[s].evidence_spans
    /\ outcomes_survival' = outcomes_survival \o tx[s].outcomes_survival
    /\ tx' = [tx EXCEPT ![s] = NoTx]
    /\ session' = [session EXCEPT ![s] = Append(@, "rollback")]
    /\ pc' = [pc EXCEPT ![s] = "finally_raise"]
    /\ UNCHANGED <<mode, proc, budget, clock, call, local, pre>>

\* the except clause: session.rollback(), then raise
Rollback(s) ==
    /\ pc[s] = "except"
    /\ tx' = [tx EXCEPT ![s] = NoTx]
    /\ session' = [session EXCEPT ![s] = Append(@, "rollback")]
    /\ pc' = [pc EXCEPT ![s] = "finally_raise"]
    /\ UNCHANGED <<mode, proc, budget, store, clock, call, local, pre>>

\* mutant: session.close() after the commit only, not in a finally clause
CloseOnSuccessOnly(s) ==
    /\ pc[s] \in {"finally", "finally_raise"}
    /\ session' = [session EXCEPT ![s] =
                      IF pc[s] = "finally" THEN Append(@, "close") ELSE @]
    /\ pc' = [pc EXCEPT ![s] = IF pc[s] = "finally" THEN "returned" ELSE "raised"]
    /\ UNCHANGED <<mode, proc, budget, store, clock, call, local, tx, pre>>

\* the finally clause: session.close(); control goes back to the caller
Close(s) ==
    /\ pc[s] \in {"finally", "finally_raise"}
    /\ session' = [session EXCEPT ![s] = Append(@, "close")]
    /\ pc' = [pc EXCEPT ![s] = IF pc[s] = "finally" THEN "returned" ELSE "raised"]
    /\ UNCHANGED <<mode, proc, budget, store, clock, call, local, tx, pre>>

\* process_article's frame when insert_extraction is back: it returns
\* structured_data, or the exception goes on (get_engine's ValueError when no
\* session was made, else an error of the store or of the lookup)
AfterInsert(p, s) ==
    IF p.pc # "persist" THEN p
    ELSE IF pc[s] = "returned" THEN [p EXCEPT !.pc = "return"]
    ELSE [p EXCEPT !.pc = "raise", !.raised_in = "insert_extraction",
                   !.exc = IF session[s] = <<>>
                           THEN Exc("ValueError",
                                    "DATABASE_URL environment variable is not set.")
                           ELSE Exc("SQLAlchemyError", local[s].failed)]

\* the caller goes on after the call returned or raised
Done(s) ==
    /\ pc[s] \in {"returned", "raised"}
    /\ pc' = [pc EXCEPT ![s] = "idle"]
    /\ call' = [call EXCEPT ![s] = NoCall]
    /\ local' = [local EXCEPT ![s] = NoLocal]
    /\ session' = [session EXCEPT ![s] = <<>>]
    /\ pre' = [pre EXCEPT ![s] = NoPre]
    /\ proc' = AfterInsert(proc, s)
    /\ UNCHANGED <<mode, budget, store, clock, tx>>

\* -------------------------------------------------------- insert_extraction

Max(S) == CHOOSE x \in S : \A y \in S : y <= x

\* RETURNING id: the id the store generates for a new row, one that no row has,
\* committed or not (ids are opaque: the least unused one stands for any)
FreshId(committed, pending) ==
    1 + Max({0} \cup {r.id : r \in committed \cup UNION pending})

\* the articles rows a statement of session s reads: the committed rows (READ
\* COMMITTED) with the session's own uncommitted writes
Visible(s) == ApplyUpdates(articles, tx[s].articles_upd) \cup tx[s].articles_ins

\* mutant: the pmid clause is left out of the query
FindArticleByDoi(rows, meta) ==
    {a.id : a \in {r \in rows : Truthy(meta.doi) /\ r.doi = meta.doi}}

\* mutant: both clauses always, a null key matching a null column
FindArticleNullMatches(rows, meta) ==
    {a.id : a \in {r \in rows : r.pmid = meta.pmid \/ r.doi = meta.doi}}

\* mutant: `elif meta.doi:`, the doi is looked up only when there is no pmid
FindArticlePmidFirst(rows, meta) ==
    {a.id : a \in {r \in rows : IF Truthy(meta.pmid) THEN r.pmid = meta.pmid
                               ELSE Truthy(meta.doi) /\ r.doi = meta.doi}}

\* SELECT id FROM articles WHERE pmid = :pmid OR doi = :doi, with only the
\* clauses whose key is truthy; no clause, no query
FindArticle(rows, meta) ==
    {a.id : a \in {r \in rows : \/ Truthy(meta.pmid) /\ r.pmid = meta.pmid
                                \/ Truthy(meta.doi) /\ r.doi = meta.doi}}

\* mutant: result.scalars().first(), of several rows one is taken
LookupFirst(s) ==
    /\ pc[s] = "lookup"
    /\ LET meta == call[s].extraction_output.study_metadata
           ids == FindArticle(Visible(s), meta)
       IN  /\ pc' = [pc EXCEPT ![s] = "upsert"]
           /\ local' = [local EXCEPT ![s].article_id =
                           IF ids = {} THEN 0 ELSE CHOOSE i \in ids : TRUE]
    /\ UNCHANGED <<mode, proc, budget, store, clock, call, tx, session, pre>>

\* result.scalar_one_or_none() raises MultipleResultsFound on several rows
Lookup(s) ==
    /\ pc[s] = "lookup"
    /\ LET meta == call[s].extraction_output.study_metadata
           ids == FindArticle(Visible(s), meta)
       IN  IF Cardinality(ids) > 1
           THEN /\ pc' = [pc EXCEPT ![s] = "except"]
                /\ local' = [local EXCEPT ![s] = [NoLocal EXCEPT !.failed = "lookup"]]
           ELSE /\ pc' = [pc EXCEPT ![s] = "upsert"]
                /\ local' = [local EXCEPT ![s].article_id =
                                IF ids = {} THEN 0 ELSE CHOOSE i \in ids : TRUE]
    /\ UNCHANGED <<mode, proc, budget, store, clock, call, tx, session, pre>>

\* the columns UPDATE articles SET ... WHERE id = :id writes
UpdateSet(id, meta, now) ==
    [id |-> id, pmid |-> meta.pmid, doi |-> meta.doi, title |-> meta.title,
     journal |-> meta.journal, year |-> meta.year, updated_at |-> now]

\* the articles table's constraints on a new row besides its primary key: none
\* (no uniqueness of pmid or doi)
ViolatesConstraint(rows, row) == FALSE

\* the columns the table fills in by default on INSERT INTO articles
ArticleDefaults(now) == [created_at |-> now, updated_at |-> now]

\* the row INSERT INTO articles (...) VALUES (...) RETURNING id adds
InsertValues(id, c, now) ==
    LET meta == c.extraction_output.study_metadata
    IN  [id |-> id, pmid |-> meta.pmid, doi |-> meta.doi, title |-> meta.title,
         journal |-> meta.journal, year |-> meta.year,
         article_type |-> c.article_type, pdf_path |-> c.pdf_path,
         created_at |-> ArticleDefaults(now).created_at,
         updated_at |-> ArticleDefaults(now).updated_at]

\* `if article_id:` UPDATE the found row (waiting for its row lock while another
\* transaction holds an uncommitted update of it), `else:` INSERT a new one
Upsert(s) ==
    /\ pc[s] = "upsert"
    /\ LET meta == call[s].extraction_output.study_metadata
           id == local[s].article_id
       IN  IF id # 0
           THEN /\ \A t \in Sessions \ {s} : \A u \in tx[t].articles_upd : u.id # id
                /\ tx' = [tx EXCEPT ![s].articles_upd =
                            {u \in @ : u.id # id} \cup {UpdateSet(id, meta, tx[s].began)}]
                /\ UNCHANGED local
           ELSE LET new == FreshId(articles, {tx[t].articles_ins : t \in Sessions})
                    row == InsertValues(new, call[s], tx[s].began)
                IN  /\ ~ViolatesConstraint(Visible(s), row)
                    /\ tx' = [tx EXCEPT ![s].articles_ins = @ \cup {row}]
                    /\ local' = [local EXCEPT ![s].article_id = new]
    /\ pc' = [pc EXCEPT ![s] = "extraction"]
    /\ UNCHANGED <<mode, proc, budget, store, clock, call, session, pre>>

\* extraction_output.model_dump_json(): the document as ordered key/value
\* pairs, study_metadata in its declared field order
model_dump_json(extraction_output) ==
    LET meta == extraction_output.study_metadata
    IN  << <<"study_metadata",
             << <<"pmid", meta.pmid>>, <<"title", meta.title>>,
                <<"year", meta.year>>, <<"journal", meta.journal>>,
                <<"doi", meta.doi>>, <<"comparator", meta.comparator>> >> >>,
           <<"experiments", extraction_output.experiments>>,
           <<"evidence_level", extraction_output.evidence_level>>,
           <<"evidence_spans", extraction_output.evidence_spans>> >>

\* mutant: one archival row per article, keyed by the article's id
ExtractionValuesPerArticle(id, article_id, c) ==
    [id |-> article_id, article_id |-> article_id,
     schema_version |-> c.schema_version,
     extractor_bundle_version |-> c.extractor_bundle_version,
     payload |-> model_dump_json(c.extraction_output)]

\* the row INSERT INTO extractions (...) RETURNING id adds
ExtractionValues(id, article_id, c) ==
    [id |-> id, article_id |-> article_id,
     schema_version |-> c.schema_version,
     extractor_bundle_version |-> c.extractor_bundle_version,
     payload |-> model_dump_json(c.extraction_output)]

\* where the body stands once the span rows `spans` and the outcome rows
\* `outcomes` are the ones left to write
Remaining(spans, outcomes) ==
    IF spans # <<>> THEN [pc |-> "spans", todo |-> spans]
    ELSE IF outcomes # <<>> THEN [pc |-> "outcomes", todo |-> outcomes]
    ELSE [pc |-> "commit", todo |-> <<>>]

\* mutant: _insert_evidence_spans is handed article_id for extraction_id
InsertExtractionSpansByArticle(s) ==
    /\ pc[s] = "extraction"
    /\ LET id == FreshId(extractions, {tx[t].extractions : t \in Sessions})
           then == Remaining(_insert_evidence_spans(local[s].article_id,
                                                    call[s].extraction_output),
                             _insert_outcomes_survival(id, call[s].extraction_output))
       IN  /\ tx' = [tx EXCEPT ![s].extractions =
                        @ \cup {ExtractionValues(id, local[s].article_id, call[s])}]
           /\ local' = [local EXCEPT ![s].extraction_id = id, ![s].todo = then.todo]
           /\ pc' = [pc EXCEPT ![s] = then.pc]
    /\ UNCHANGED <<mode, proc, budget, store, clock, call, session, pre>>

InsertExtraction(s) ==
    /\ pc[s] = "extraction"
    /\ LET id == FreshId(extractions, {tx[t].extractions : t \in Sessions})
           then == Remaining(_insert_evidence_spans(id, call[s].extraction_output),
                             _insert_outcomes_survival(id, call[s].extraction_output))
       IN  /\ tx' = [tx EXCEPT ![s].extractions =
                        @ \cup {ExtractionValues(id, local[s].article_id, call[s])}]
           /\ local' = [local EXCEPT ![s].extraction_id = id, ![s].todo = then.todo]
           /\ pc' = [pc EXCEPT ![s] = then.pc]
    /\ UNCHANGED <<mode, proc, budget, store, clock, call, session, pre>>

\* one session.execute(span_sql, ...) of the loop of _insert_evidence_spans
InsertEvidenceSpan(s) ==
    /\ pc[s] = "spans"
    /\ LET then == Remaining(Tail(local[s].todo),
                             _insert_outcomes_survival(local[s].extraction_id,
                                                       call[s].extraction_output))
       IN  /\ tx' = [tx EXCEPT ![s].evidence_spans = Append(@, Head(local[s].todo))]
           /\ local' = [local EXCEPT ![s].todo = then.todo]
           /\ pc' = [pc EXCEPT ![s] = then.pc]
    /\ UNCHANGED <<mode, proc, budget, store, clock, call, session, pre>>

\* one session.execute(outcome_sql, ...) of the loops of _insert_outcomes_survival
InsertOutcome(s) ==
    /\ pc[s] = "outcomes"
    /\ LET then == Remaining(<<>>, Tail(local[s].todo))
       IN  /\ tx' = [tx EXCEPT ![s].outcomes_survival = Append(@, Head(local[s].todo))]
           /\ local' = [local EXCEPT ![s].todo = then.todo]
           /\ pc' = [pc EXCEPT ![s] = then.pc]
    /\ UNCHANGED <<mode, proc, budget, store, clock, call, session, pre>>

\* --------------------------------------------- lambda_function.py, pipeline.py

\* handler(event, context) up to its call of process_article, with
\* INIT_DB_ON_LAMBDA_START not set
Handler ==
    /\ mode = "pipeline"
    /\ proc.pc = "idle"
    /\ \E event \in Events :
        proc' = IF ~Truthy(event.file_path)
                THEN [proc EXCEPT !.pc = "raise", !.event = event,
                         !.raised_in = "handler",
                         !.exc = Exc("ValueError",
                                     "Missing 'file_path' in the event payload.")]
                ELSE [proc EXCEPT !.pc = "process_article", !.event = event]
    /\ UNCHANGED <<mode, budget, store, clock, pc, call, local, tx, session, pre>>

\* process_article up to `structured_data = extract_structured_data(text)`
ReadArticle ==
    /\ proc.pc = "process_article"
    /\ LET f == proc.event.file_path
           raise(exc) == [proc EXCEPT !.pc = "raise", !.raised_in = "process_article",
                                      !.exc = exc]
       IN  IF ~Files[f].is_file
           THEN proc' = raise(Exc("FileNotFoundError", "The file was not found"))
           ELSE IF SuffixLower(f) \notin {".pdf", ".txt"}
           THEN proc' = raise(Exc("ValueError", "Unsupported file type"))
           ELSE \E text \in Files[f].texts :
                    proc' = IF text = ""
                            THEN raise(Exc("ValueError",
                                    "Failed to extract text from the document."))
                            ELSE [proc EXCEPT !.pc = "extract", !.text = text]
    /\ UNCHANGED <<mode, budget, store, clock, pc, call, local, tx, session, pre>>

\* mutant: db.insert_extraction is called whatever persist_to_db is
ExtractStructuredDataAndPersist ==
    /\ proc.pc = "extract"
    /\ \E llm_output \in LlmOutputs :
        LET extracted_json == json_loads(llm_output)
            validated_data == model_validate(extracted_json.val)
            called == [proc EXCEPT !.llm_calls = @ + 1, !.llm_output = llm_output,
                                   !.decoded = extracted_json]
            raise(exc) == [called EXCEPT !.pc = "raise", !.exc = exc,
                                         !.raised_in = "extract_structured_data"]
        IN  IF ~extracted_json.ok
            THEN /\ proc' = raise(JSONDecodeError(extracted_json.msg, extracted_json.next))
                 /\ UNCHANGED budget
            ELSE IF validated_data.errors # {}
            THEN /\ proc' = raise(ValidationError(validated_data.errors))
                 /\ UNCHANGED budget
            ELSE /\ proc' = [called EXCEPT !.data = validated_data.val, !.pc = "persist"]
                 /\ budget' = 1
    /\ UNCHANGED <<mode, store, clock, pc, call, local, tx, session, pre>>

\* extract_structured_data(text), and process_article after it: the one call
\* of the collaborator, json.loads, model_validate; then `if persist_to_db:`
\* the call of db.insert_extraction (one call to begin), else the return
ExtractStructuredData ==
    /\ proc.pc = "extract"
    /\ \E llm_output \in LlmOutputs :
        LET extracted_json == json_loads(llm_output)
            validated_data == model_validate(extracted_json.val)
            called == [proc EXCEPT !.llm_calls = @ + 1, !.llm_output = llm_output,
                                   !.decoded = extracted_json]
            raise(exc) == [called EXCEPT !.pc = "raise", !.exc = exc,
                                         !.raised_in = "extract_structured_data"]
        IN  IF ~extracted_json.ok
            THEN /\ proc' = raise(JSONDecodeError(extracted_json.msg, extracted_json.next))
                 /\ UNCHANGED budget
            ELSE IF validated_data.errors # {}
            THEN /\ proc' = raise(ValidationError(validated_data.errors))
                 /\ UNCHANGED budget
            ELSE IF proc.event.persist_to_db
            THEN /\ proc' = [called EXCEPT !.data = validated_data.val, !.pc = "persist"]
                 /\ budget' = 1
            ELSE /\ proc' = [called EXCEPT !.data = validated_data.val, !.pc = "return"]
                 /\ UNCHANGED budget
    /\ UNCHANGED <<mode, store, clock, pc, call, local, tx, session, pre>>

\* the response of every except clause is the one of `except Exception`
ResponseToGeneric(p) ==
    IF p.pc = "return"
    THEN [statusCode |-> 200, body |-> json_dumps(model_dump(p.data))]
    ELSE [statusCode |-> IF p.exc.type = "FileNotFoundError" THEN 404
                         ELSE IF IsValueError(p.exc) THEN 400 ELSE 500,
          body |-> json_dumps(JObj([error |->
                        JStr(Str(Exc("", "An internal server error occurred.")))]))]

\* what the handler returns for process_article's return value or exception
ResponseTo(p) ==
    IF p.pc = "return"
    THEN [statusCode |-> 200, body |-> json_dumps(model_dump(p.data))]
    ELSE IF p.exc.type = "FileNotFoundError"
    THEN [statusCode |-> 404,
          body |-> json_dumps(JObj([error |-> JStr(Str(Exc("", "File not found")))]))]
    ELSE IF IsValueError(p.exc)
    THEN [statusCode |-> 400, body |-> json_dumps(JObj([error |-> JStr(Str(p.exc))]))]
    ELSE [statusCode |-> 500,
          body |-> json_dumps(JObj([error |->
                        JStr(Str(Exc("", "An internal server error occurred.")))]))]

\* the handler after process_article: the 200 response, or an except clause
Respond ==
    /\ proc.pc \in {"return", "raise"}
    /\ proc' = [proc EXCEPT !.pc = "done", !.response = ResponseTo(proc)]
    /\ UNCHANGED <<mode, budget, store, clock, pc, call, local, tx, session, pre>>

\* ---------------------------------------------------------- specifications

Next ==
    \E s \in Sessions :
        \/ Begin(s)
        \/ EngineUnavailable(s)
        \/ Lookup(s)
        \/ Upsert(s)
        \/ InsertExtraction(s)
        \/ InsertEvidenceSpan(s)
        \/ InsertOutcome(s)
        \/ Fail(s)
        \/ Commit(s)
        \/ Rollback(s)
        \/ Close(s)
        \/ Done(s)

\* sequential callers, as the pipeline and the Lambda handler are
Spec == Init /\ [][Next]_vars

\* two concurrent writers
SpecConc == InitConc /\ [][Next]_vars

\* one call for every document of the derivation inputs
SpecOutcomes == InitOutcomes /\ [][Next]_vars

\* the Lambda handler's run: process_article, and insert_extraction under it
NextPipeline ==
    \/ Handler
    \/ ReadArticle
    \/ ExtractStructuredData
    \/ Respond
    \/ Next

SpecPipeline == InitPipeline /\ [][NextPipeline]_vars

\* ------------------------------------------------------------ properties

\* the value of `key` in a dumped object (a sequence of key/value pairs)
Get(pairs, key) == pairs[CHOOSE n \in 1..Len(pairs) : pairs[n][1] = key][2]

\* the pmid / doi archived in an extractions row's payload
PayloadPmid(e) == Get(Get(e.payload, "study_metadata"), "pmid")
PayloadDoi(e) == Get(Get(e.payload, "study_metadata"), "doi")

Ids(rows) == {r.id : r \in rows}
Row(rows, id) == CHOOSE r \in rows : r.id = id

MetaOf(s) == call[s].extraction_output.study_metadata

\* C1: from the empty store, two successful sequential calls with the same
\* non-empty pmid leave exactly one articles row and two extractions rows, both
\* referencing that article, whatever the other metadata of the two calls.
C1_SamePmidOneArticle ==
    \A e1, e2 \in extractions :
        ( /\ Cardinality(extractions) = 2
          /\ e1 # e2
          /\ Truthy(PayloadPmid(e1))
          /\ PayloadPmid(e1) = PayloadPmid(e2) )
        => /\ Cardinality(articles) = 1
           /\ e1.article_id = e2.article_id
           /\ e1.article_id \in Ids(articles)

C1_Witness ==
    /\ pc[1] = "returned"
    /\ Cardinality(extractions) = 2
    /\ Cardinality(articles) = 1
    /\ \E e1, e2 \in extractions :
        /\ e1 # e2
        /\ Truthy(PayloadPmid(e1))
        /\ PayloadPmid(e1) = PayloadPmid(e2)
        /\ PayloadDoi(e1) # PayloadDoi(e2)
        /\ e1.article_id = e2.article_id

\* C2 (as claimed): any two extractions rows whose payloads carry the same
\* non-empty pmid, or the same non-empty doi, reference the same articles row.
C2_SameKeySameArticle ==
    \A e1, e2 \in extractions :
        ( \/ Truthy(PayloadPmid(e1)) /\ PayloadPmid(e1) = PayloadPmid(e2)
          \/ Truthy(PayloadDoi(e1)) /\ PayloadDoi(e1) = PayloadDoi(e2) )
        => e1.article_id = e2.article_id

Failing == {"except", "finally_raise", "raised"}

\* C3: once a statement of insert_extraction or the commit has failed, the
\* committed tables are those of before the call, up to and after the re-raise;
\* the transaction of a call that raised was rolled back and never committed,
\* and a call that raised returns no extraction id.
C3_FailureLeavesStore ==
    \A s \in Sessions :
        /\ pc[s] \in Failing => store = pre[s]
        /\ (pc[s] \in {"finally_raise", "raised"} /\ session[s] # <<>>)
              => /\ session[s][2] = "rollback"
                 /\ \A n \in 1..Len(session[s]) : session[s][n] # "commit"
        /\ pc[s] = "raised" => local[s].returned = 0
        /\ pc[s] = "returned" => local[s].failed = ""

\* a failure on an evidence-span insert, after the article and the extraction
\* rows of the run were written, has been rolled back and re-raised
C3_Witness ==
    /\ pc[1] = "raised"
    /\ local[1].failed = "spans"
    /\ Truthy(MetaOf(1).pmid)
    /\ articles = {}
    /\ extractions = {}

\* C4: a successful call adds exactly one extractions row, carrying the dumped
\* document, the two versions and the resolved article's id, whether or not the
\* article existed; no step changes or removes a committed extractions row.
C4_AppendOnly ==
    [][ /\ extractions \subseteq extractions'
        /\ \A s \in Sessions :
            IF pc[s] = "commit" /\ pc'[s] = "finally"
            THEN \E e \in extractions' \ extractions :
                    /\ extractions' = extractions \cup {e}
                    /\ e.id \notin Ids(extractions)
                    /\ e.article_id = local[s].article_id
                    /\ e.article_id \in Ids(articles')
                    /\ e.payload = model_dump_json(call[s].extraction_output)
                    /\ e.schema_version = call[s].schema_version
                    /\ e.extractor_bundle_version = call[s].extractor_bundle_version
            ELSE pc'[s] # pc[s] => extractions' = extractions
      ]_vars

\* a second run on an article that already existed has added its own row
C4_Witness ==
    /\ pc[1] = "returned"
    /\ Cardinality(extractions) = 2
    /\ local[1].article_id \in Ids(pre[1][1])
    /\ \A e \in extractions : e.article_id = local[1].article_id

\* C5: a successful call whose pmid and doi are both null has matched no
\* article and inserted a new articles row, whatever the store held before.
C5_NoIdentityInserts ==
    \A s \in Sessions :
        (pc[s] # "idle" /\ MetaOf(s).pmid = None /\ MetaOf(s).doi = None)
        => /\ pc[s] \in {"extraction", "spans", "outcomes", "commit"}
                => /\ tx[s].articles_upd = {}
                   /\ Cardinality(tx[s].articles_ins) = 1
                   /\ local[s].article_id \notin Ids(articles)
           /\ pc[s] = "returned"
                => /\ local[s].article_id \notin Ids(pre[s][1])
                   /\ pre[s][1] \subseteq articles
                   /\ Cardinality(articles) = Cardinality(pre[s][1]) + 1
                   /\ local[s].article_id \in Ids(articles)

\* the store already held an article with the same title, journal and year and
\* itself no pmid and no doi
C5_Witness ==
    /\ pc[1] = "returned"
    /\ MetaOf(1).pmid = None /\ MetaOf(1).doi = None
    /\ \E a \in pre[1][1] :
        /\ a.pmid = None /\ a.doi = None
        /\ a.title = MetaOf(1).title /\ Truthy(a.title)
        /\ a.journal = MetaOf(1).journal /\ a.year = MetaOf(1).year
    /\ Cardinality(articles) = Cardinality(pre[1][1]) + 1

\* C6: a session is ended by exactly one of commit and rollback and then
\* closed before control is back at the caller; none is open outside a call.
C6_SessionScoped ==
    \A s \in Sessions :
        /\ pc[s] = "returned" => session[s] = <<"open", "commit", "close">>
        /\ pc[s] = "raised" => session[s] \in {<<>>, <<"open", "rollback", "close">>}
        /\ pc[s] = "idle" => session[s] = <<>>
        /\ Len(session[s]) <= 3

\* the commit itself raised: rolled back, closed, re-raised
C6_Witness ==
    /\ pc[1] = "raised"
    /\ local[1].failed = "commit"
    /\ session[1] = <<"open", "rollback", "close">>

SameKey(a, meta) ==
    \/ Truthy(meta.pmid) /\ a.pmid = meta.pmid
    \/ Truthy(meta.doi) /\ a.doi = meta.doi

\* C7: when a transaction whose lookup found no article commits its article
\* insert after another writer has committed an article with the same pmid or
\* doi, both rows are committed: the lookup alone does not prevent duplicates.
C7_RaceCommitsDuplicate ==
    [][ \A s \in Sessions :
          ( /\ pc[s] = "commit" /\ pc'[s] = "finally"
            /\ tx[s].articles_ins # {}
            /\ \E a \in articles : SameKey(a, MetaOf(s)) )
          => Cardinality({a \in articles' : SameKey(a, MetaOf(s))}) >= 2
      ]_vars

\* both writers returned, each having inserted its own article for pmid P1
C7_Witness ==
    /\ pc[1] = "returned" /\ pc[2] = "returned"
    /\ MetaOf(1).pmid = MetaOf(2).pmid
    /\ pre[1][1] = {} /\ pre[2][1] = {}
    /\ local[1].article_id # local[2].article_id
    /\ Cardinality({a \in articles : a.pmid = MetaOf(1).pmid}) = 2

\* C8: a call whose lookup found an article has, on that row, written pmid,
\* doi, title, journal and year from the new study_metadata (nulls included)
\* and updated_at, and nothing else; every other articles row is unchanged,
\* none was inserted, and every earlier extractions row is as it was.
C8_UpdateFrame ==
    \A s \in Sessions :
        (pc[s] = "returned" /\ local[s].article_id \in Ids(pre[s][1]))
        => LET old == Row(pre[s][1], local[s].article_id)
               new == Row(articles, local[s].article_id)
               meta == MetaOf(s)
           IN  /\ new = [old EXCEPT !.pmid = meta.pmid, !.doi = meta.doi,
                                    !.title = meta.title, !.journal = meta.journal,
                                    !.year = meta.year, !.updated_at = clock]
               /\ new.id = old.id
               /\ new.article_type = old.article_type
               /\ new.pdf_path = old.pdf_path
               /\ new.created_at = old.created_at
               /\ articles \ {new} = pre[s][1] \ {old}
               /\ Cardinality(articles) = Cardinality(pre[s][1])
               /\ pre[s][2] \subseteq extractions

\* the matched row's doi and title were set to null, by a call made with
\* another pdf_path and article_type than the row has
C8_Witness ==
    /\ pc[1] = "returned"
    /\ local[1].article_id \in Ids(pre[1][1])
    /\ LET old == Row(pre[1][1], local[1].article_id)
           new == Row(articles, local[1].article_id)
       IN  /\ Truthy(old.doi) /\ new.doi = None
           /\ Truthy(old.title) /\ new.title = None
           /\ new.pdf_path # call[1].pdf_path
           /\ new.article_type # call[1].article_type
           /\ new.updated_at > new.created_at
    /\ Cardinality(articles) = 2

\* the first whitespace-delimited token of a metric value is a number
FirstTokenNumeric(v) ==
    /\ v # NoneStr
    /\ LET tok == TakeToken(LStrip(v))
       IN  tok # <<>> /\ CanFloat(tok)

\* how many rows of `rows` satisfy P
Count(rows, P(_)) == Cardinality({n \in 1..Len(rows) : P(rows[n])})

GroupNames == (ArmNames \ {None, ""}) \cup {"N/A"}

C10_GroupANeverComparator ==
    \A s \in Sessions :
        pc[s] = "returned"
        => \A n \in 1..Len(outcomes_survival) :
              outcomes_survival[n].group_a # MetaOf(s).comparator

\* C10 (amended): no row comes from an experiment whose arm_name equals the
\* comparator name: rows with group_a equal to the comparator name exist only
\* when that name is the placeholder "N/A", and are then exactly the rows of the
\* arms without a name.
C10_ComparatorArmsSkipped ==
    \A s \in Sessions :
        pc[s] = "returned"
        => LET out == call[s].extraction_output
               exps == out.experiments
               cmp == out.study_metadata.comparator
           IN  \A k \in 1..Len(Endpoints) :
                  LET Hit(r) == r.group_a = cmp /\ r.endpoint = Endpoints[k]
                  IN  Count(outcomes_survival, Hit) =
                        IF cmp = "N/A"
                        THEN Cardinality({i \in 1..Len(exps) :
                                /\ ~Truthy(exps[i].arm_name)
                                /\ FirstTokenNumeric(
                                       Metric(exps[i].results, Endpoints[k]).value)})
                        ELSE 0

\* two arms named as the comparator, both with numeric values, beside a third
\* arm: only the third arm's row is written
C10_Witness ==
    /\ mode = "outcomes"
    /\ pc[1] = "returned"
    /\ LET exps == call[1].extraction_output.experiments
       IN  /\ MetaOf(1).comparator = "S"
           /\ Len(exps) = 2
           /\ exps[1].arm_name = "S"
           /\ exps[1].results.os.value = <<"1", "2", ".", "3">>
           /\ exps[2].arm_name = "L"
           /\ exps[2].results.os.value = <<"1", "2", ".", "3">>
           /\ Len(outcomes_survival) = 2
           /\ \A n \in 1..2 : outcomes_survival[n].group_a = "L"

\* the arms of a document that carry the name `name`, by position
ArmsNamed(exps, name) == {i \in 1..Len(exps) : exps[i].arm_name = name}

Min(S) == CHOOSE x \in S : \A y \in S : x <= y

\* the number a metric value stands for, NoneNum if its first token is no number
ParsedValue(v) ==
    IF FirstTokenNumeric(v) THEN Float(TakeToken(LStrip(v))) ELSE NoneNum

\* C11 (as claimed): every row has group_b equal to the comparator and
\* median_b_months equal to the parsed value, for the row's endpoint, of the
\* first experiment whose arm_name equals the comparator; null when no
\* experiment has that arm_name.
C11_ComparatorValues ==
    \A s \in Sessions :
        pc[s] = "returned"
        => LET exps == call[s].extraction_output.experiments
               cmp == MetaOf(s).comparator
           IN  \A n \in 1..Len(outcomes_survival) :
                  LET r == outcomes_survival[n]
                  IN  /\ r.group_b = cmp
                      /\ r.median_b_months =
                            IF ArmsNamed(exps, cmp) = {} THEN NoneNum
                            ELSE ParsedValue(
                                    Metric(exps[Min(ArmsNamed(exps, cmp))].results,
                                           r.endpoint).value)

\* C11 (amended): every row has group_b equal to the comparator; when the
\* comparator is a non-empty name, median_b_months is the parsed value, for the
\* row's endpoint, of the first experiment of that name, and null when no
\* experiment has it; when the comparator is null or empty, median_b_months is
\* null whatever the arms are called.
C11_ComparatorValuesWhenNamed ==
    \A s \in Sessions :
        pc[s] = "returned"
        => LET exps == call[s].extraction_output.experiments
               cmp == MetaOf(s).comparator
           IN  \A n \in 1..Len(outcomes_survival) :
                  LET r == outcomes_survival[n]
                  IN  /\ r.group_b = cmp
                      /\ r.median_b_months =
                            IF ~Truthy(cmp) \/ ArmsNamed(exps, cmp) = {} THEN NoneNum
                            ELSE ParsedValue(
                                    Metric(exps[Min(ArmsNamed(exps, cmp))].results,
                                           r.endpoint).value)

\* arms L (OS 13.6 m), S (OS 12.3) and S again (OS 13.6 m) with comparator S:
\* exactly one row, OS, L against S, 13.6 against the first S arm's 12.3
C11_Witness ==
    /\ mode = "outcomes"
    /\ pc[1] = "returned"
    /\ LET exps == call[1].extraction_output.experiments
       IN  /\ MetaOf(1).comparator = "S"
           /\ Len(exps) = MaxArms + 1
           /\ exps[1].arm_name = "L"
           /\ exps[1].results.os.value = <<"1", "3", ".", "6", " ", "m">>
           /\ \A i \in 2..Len(exps) : exps[i].arm_name = "S"
           /\ exps[2].results.os.value = <<"1", "2", ".", "3">>
           /\ \A i \in 3..Len(exps) :
                 exps[i].results.os.value = <<"1", "3", ".", "6", " ", "m">>
           /\ Len(outcomes_survival) = 1
           /\ outcomes_survival[1].endpoint = "OS"
           /\ outcomes_survival[1].group_a = "L"
           /\ outcomes_survival[1].group_b = "S"
           /\ outcomes_survival[1].median_a_months = <<136, 1>>
           /\ outcomes_survival[1].median_b_months = <<123, 1>>

\* the comparator of a document is a name that none of its arms carries
NoMatch(out) ==
    /\ Truthy(out.study_metadata.comparator)
    /\ ArmsNamed(out.experiments, out.study_metadata.comparator) = {}

\* C12 (as claimed): a successful call whose comparator names no arm of the
\* document has derived no outcomes_survival row.
C12_NoMatchNoRows ==
    \A s \in Sessions :
        (pc[s] = "returned" /\ NoMatch(call[s].extraction_output))
        => outcomes_survival = pre[s][4]

\* C12 (amended): a call whose comparator names no arm of the document is not
\* failed by the derivation, and derives one row for every arm and endpoint
\* whose own value has a numeric first token, each with group_b the comparator
\* name and a null median_b_months.
C12_NoMatchRowsWithoutComparatorValues ==
    \A s \in Sessions :
        (pc[s] = "returned" /\ NoMatch(call[s].extraction_output))
        => LET exps == call[s].extraction_output.experiments
               mine == SelectSeq(outcomes_survival,
                                 LAMBDA r : r.extraction_id = local[s].returned)
           IN  /\ local[s].failed = ""
               /\ Len(mine) =
                     Cardinality({<<i, k>> \in (1..Len(exps)) \X (1..Len(Endpoints)) :
                        FirstTokenNumeric(Metric(exps[i].results, Endpoints[k]).value)})
               /\ \A n \in 1..Len(mine) :
                     /\ mine[n].group_b = MetaOf(s).comparator
                     /\ mine[n].median_b_months = NoneNum

\* comparator S, arms L (OS 13.6 m) and an unnamed arm (OS 12.3, TTP 5): the
\* three rows are there, none with a comparator value
C12_Witness ==
    /\ mode = "outcomes"
    /\ pc[1] = "returned"
    /\ LET exps == call[1].extraction_output.experiments
       IN  /\ MetaOf(1).comparator = "S"
           /\ Len(exps) = 2
           /\ exps[1].arm_name = "L"
           /\ exps[1].results.os.value = <<"1", "3", ".", "6", " ", "m">>
           /\ exps[2].arm_name = None
           /\ exps[2].results.os.value = <<"1", "2", ".", "3">>
           /\ Len(outcomes_survival) = 3
           /\ \A n \in 1..3 : /\ outcomes_survival[n].group_b = "S"
                              /\ outcomes_survival[n].median_b_months = NoneNum

\* the rows of a table (a sequence) that belong to extraction `id`
RowsOf(rows, id) == SelectSeq(rows, LAMBDA r : r.extraction_id = id)

\* C17: in every committed state, every extractions row references an existing
\* articles row and every evidence_spans and outcomes_survival row an existing
\* extractions row; a call that returned has added, after the rows that were
\* there, one evidence_spans row per element of its evidence_spans, in order,
\* with the element's fields, all keyed to the extractions row it created.
C17_ReferentialIntegrity ==
    /\ \A e \in extractions : e.article_id \in Ids(articles)
    /\ \A n \in 1..Len(evidence_spans) :
          evidence_spans[n].extraction_id \in Ids(extractions)
    /\ \A n \in 1..Len(outcomes_survival) :
          outcomes_survival[n].extraction_id \in Ids(extractions)
    /\ \A s \in Sessions :
          pc[s] = "returned"
          => LET spans == call[s].extraction_output.evidence_spans
                 id == local[s].returned
                 mine == RowsOf(evidence_spans, id)
             IN  /\ id \in Ids(extractions) \ Ids(pre[s][2])
                 /\ Row(extractions, id).article_id = local[s].article_id
                 /\ Len(mine) = Len(spans)
                 /\ Len(evidence_spans) = Len(pre[s][3]) + Len(spans)
                 /\ \A n \in 1..Len(spans) :
                       /\ mine[n].field_path = spans[n].field_path
                       /\ mine[n].value_json = spans[n].value_json
                       /\ mine[n].evidence_page = spans[n].evidence_page
                       /\ mine[n].verbatim_excerpt = spans[n].verbatim_excerpt

\* after a failed run and a first successful one, a second run on the same
\* article has returned: four span rows, two for each of the two extractions
C17_Witness ==
    /\ budget = 0
    /\ pc[1] = "returned"
    /\ Cardinality(articles) = 1
    /\ Cardinality(extractions) = 2
    /\ local[1].returned # local[1].article_id
    /\ Len(evidence_spans) = 4
    /\ Len(RowsOf(evidence_spans, local[1].returned)) = 2
    /\ Len(outcomes_survival) = 2

\* C19: in every committed state of the sequential runs, no two articles rows
\* share a non-empty pmid and no two share a non-empty doi.
C19_KeysUnique ==
    \A a, b \in articles :
        a.id # b.id
        => /\ ~(Truthy(a.pmid) /\ a.pmid = b.pmid)
           /\ ~(Truthy(a.doi) /\ a.doi = b.doi)

\* an upsert had rewritten the pmid of an article matched by its doi, and the
\* pmid it erased has come again: it is on a new article, and on that one only
C19_Witness ==
    /\ pc[1] = "returned"
    /\ Truthy(MetaOf(1).pmid)
    /\ local[1].article_id \notin Ids(pre[1][1])
    /\ \E e \in pre[1][2] :
          /\ PayloadPmid(e) = MetaOf(1).pmid
          /\ e.article_id # local[1].article_id
          /\ Truthy(Row(articles, e.article_id).pmid)
          /\ Truthy(Row(articles, e.article_id).doi)
    /\ Cardinality(articles) = 2

\* the pmid of the call matches one article and its doi another one
TwoMatch(rows, meta) ==
    \E a, b \in rows :
        /\ a.id # b.id
        /\ Truthy(meta.pmid) /\ a.pmid = meta.pmid
        /\ Truthy(meta.doi) /\ b.doi = meta.doi

\* C20: a call whose pmid matches one article and whose doi matches another
\* one does not get past the lookup: it writes nothing, pends nothing, leaves
\* the store as it was, and ends raised after a rollback, never returned.
C20_TwoMatchesRaise ==
    \A s \in Sessions :
        (pc[s] # "idle" /\ TwoMatch(pre[s][1], MetaOf(s)))
        => /\ pc[s] \in {"lookup", "except", "finally_raise", "raised"}
           /\ tx[s].articles_ins = {} /\ tx[s].articles_upd = {}
           /\ tx[s].extractions = {}
           /\ local[s].article_id = 0
           /\ local[s].returned = 0
           /\ store = pre[s]
           /\ pc[s] = "raised"
                => session[s] \in {<<>>, <<"open", "rollback", "close">>}

\* one article was created with only the pmid, another with only the doi, and
\* the third call, carrying both, has raised out of its lookup
C20_Witness ==
    /\ pc[1] = "raised"
    /\ local[1].failed = "lookup"
    /\ session[1] = <<"open", "rollback", "close">>
    /\ TwoMatch(articles, MetaOf(1))
    /\ Cardinality(articles) = 2
    /\ \E a, b \in articles :
          /\ a.pmid = MetaOf(1).pmid /\ a.doi = None
          /\ b.doi = MetaOf(1).doi /\ b.pmid = None
    /\ Cardinality(extractions) = 2

\* the document of the run: what json.loads made of the collaborator's text
Document == proc.decoded.val

\* the collaborator was called and its text was well-formed JSON
Decodes == proc.llm_calls > 0 /\ proc.decoded.ok

\* the run's validation reported an error at a location
ErrorAt(loc) == \E e \in proc.exc.errors : e[1] = loc

\* a path leads into the "other" map of a Results
InOther(p) == \E i \in 1..Len(p) : p[i] = "other"

\* C13 (as claimed): whenever the run's document has, in any one of its
\* objects, one key that no model declares, and is valid without it, its
\* validation fails; and a document that is valid passes.
C13_ExtraKeyFails ==
    Decodes
    => /\ \A p \in ObjPaths(Document, <<>>) :
            ( /\ Undeclared \in DOMAIN GetAt(Document, p).f
              /\ model_validate(RemoveAt(Document, Append(p, Undeclared))).errors = {} )
            => /\ proc.exc.type = "ValidationError"
               /\ ErrorAt(Append(p, Undeclared))
               /\ proc.data = JNull
       /\ (Document = golden_response) => (proc.exc.type # "ValidationError")

\* C13 (amended): the same for every object that is a schema record (root,
\* study_metadata, an experiment, treatment, bclc_baseline and its three parts,
\* bclc_2025_cuse, results, an outcome metric, safety, an adverse event, an
\* evidence span); a key added to the "other" map of a Results is data of that
\* map, and the document validates with it.
C13_ExtraKeyFailsInRecords ==
    Decodes
    => /\ \A p \in ObjPaths(Document, <<>>) :
            ( /\ Undeclared \in DOMAIN GetAt(Document, p).f
              /\ model_validate(RemoveAt(Document, Append(p, Undeclared))).errors = {} )
            => IF InOther(p)
               THEN proc.exc.type # "ValidationError" /\ proc.data # JNull
               ELSE /\ proc.exc.type = "ValidationError"
                    /\ proc.exc.errors = {<<Append(p, Undeclared), "extra_forbidden">>}
                    /\ proc.data = JNull
       /\ (Document = golden_response) => (proc.exc.type # "ValidationError")

\* the document with one key too many in the child_pugh record of its first
\* arm was rejected for that key alone, and nothing was persisted
C13_Witness ==
    /\ proc.pc = "done"
    /\ proc.event.persist_to_db
    /\ Document = SetAt(golden_response,
                        <<"experiments", "0", "bclc_baseline", "child_pugh", Undeclared>>,
                        JStr("x"))
    /\ proc.exc.errors =
          {<< <<"experiments", "0", "bclc_baseline", "child_pugh", Undeclared>>,
              "extra_forbidden" >>}
    /\ proc.response.statusCode = 400
    /\ articles = {}

\* the scalar fields of the run's document
Leaves == LeafFields(Document, TModel("ExtractionOutput"), <<>>)

Missing(path) == ~HasAt(Document, path)
Null(path) == HasAt(Document, path) /\ GetAt(Document, path).t = "null"

FieldName(path) == path[Len(path)]

\* C14 (as claimed): no validation error is at a scalar field that the
\* document omits or sets to null: whatever else validates, validates without it.
C14_MissingLeafValidates ==
    Decodes
    => \A l \in Leaves : (Missing(l.path) \/ Null(l.path)) => ~ErrorAt(l.path)

\* C14 (amended): a scalar field that the document omits or sets to null is an
\* error exactly when it is EvidenceSpan.field_path, EvidenceSpan.value_json or
\* ExtractionOutput.evidence_level (omitted or null), or BCLC2025CUSE.mentioned
\* (null); every other scalar field may be omitted or null.
C14_OptionalLeavesMayBeMissing ==
    Decodes
    => \A l \in Leaves :
          /\ Missing(l.path)
                => (ErrorAt(l.path)
                      <=> FieldName(l.path) \in {"field_path", "value_json",
                                                 "evidence_level"})
          /\ Null(l.path)
                => (ErrorAt(l.path)
                      <=> FieldName(l.path) \in {"field_path", "value_json",
                                                 "evidence_level", "mentioned"})

\* the document without the ecog of its first arm, its only difference from
\* the valid one, was validated and persisted
C14_Witness ==
    /\ proc.pc = "done"
    /\ proc.response.statusCode = 200
    /\ Document = RemoveAt(golden_response,
            <<"experiments", "0", "bclc_baseline", "performance_status", "ecog">>)
    /\ proc.data.f.experiments.q[1].f.bclc_baseline.f.performance_status.f.ecog = JNull
    /\ Cardinality(extractions) = 1

\* the collaborator's text is one that is not well-formed JSON
Malformed == proc.llm_output \in MalformedOutputs(json_dumps(golden_response))

\* what a caller of extract_structured_data or process_article makes of the
\* exception it gets, by its class
ExcKind(exc) ==
    CASE exc.type = "JSONDecodeError" -> "parse"
      [] exc.type = "ValidationError" -> "validation"
      [] OTHER -> "other"

\* what a caller of the handler makes of the response, by its status code and
\* the error text in its body
ResponseKind(response) ==
    IF response.statusCode # 400 THEN "other"
    ELSE LET error == json_loads(response.body).val.f.error.s
         IN  IF error.text \in JSONDecodeMessages THEN "parse"
             ELSE IF error.text = "validation errors for ExtractionOutput"
             THEN "validation"
             ELSE "other"

\* C15: a collaborator text that is not well-formed JSON and a well-formed one
\* that violates the schema end differently: the exception that leaves
\* extract_structured_data and process_article is of another class, and the
\* handler's response, by status code and body, tells which one it was (so no
\* response of the one is a response of the other).
C15_ParseAndValidationDiffer ==
    proc.raised_in = "extract_structured_data"
    => LET cause == IF Malformed THEN "parse" ELSE "validation"
       IN  /\ ExcKind(proc.exc) = cause
           /\ Malformed <=> ~proc.decoded.ok
           /\ proc.pc = "done" => ResponseKind(proc.response) = cause

\* the handler has answered a document cut short before its last brace
C15_Witness ==
    /\ proc.pc = "done"
    /\ proc.llm_output = SubSeq(json_dumps(golden_response), 1,
                                Len(json_dumps(golden_response)) - 1)
    /\ proc.exc.type = "JSONDecodeError"
    /\ proc.response.statusCode = 400
    /\ ResponseKind(proc.response) = "parse"
    /\ proc.llm_calls = 1

\* C16 (as claimed): process_article on an existing, non-empty .txt file with
\* persistence off, the collaborator being the one the code calls, has not
\* raised, has called the collaborator once, and has returned a model whose
\* dump is the document the collaborator returned.
C16_SmokeRunReturnsDocument ==
    ( /\ proc.pc \in {"return", "raise", "done"}
      /\ proc.raised_in # "handler"
      /\ Files[proc.event.file_path].is_file
      /\ SuffixLower(proc.event.file_path) = ".txt"
      /\ proc.text # ""
      /\ ~proc.event.persist_to_db
      /\ proc.llm_output = _mock_llm_call )
    => /\ proc.exc = NoExc
       /\ proc.llm_calls = 1
       /\ model_dump(proc.data) = Document

\* a database session was opened, or the store holds a row
Touched ==
    \/ pc[1] # "idle" \/ session[1] # <<>> \/ tx[1] # NoTx \/ budget > 0
    \/ articles # {} \/ extractions # {}
    \/ evidence_spans # <<>> \/ outcomes_survival # <<>>

\* C18: a database session is opened, and a row written, only in a run with
\* persist_to_db true, of a file that exists, is a .pdf or a .txt and gave text,
\* whose collaborator was called once and returned well-formed JSON that passed
\* validation; insert_extraction is called with the validated document.
C18_PersistOnlyValidated ==
    Touched
    => /\ proc.event.persist_to_db
       /\ Files[proc.event.file_path].is_file
       /\ SuffixLower(proc.event.file_path) \in {".pdf", ".txt"}
       /\ proc.text # ""
       /\ proc.llm_calls = 1
       /\ ~Malformed /\ proc.decoded.ok
       /\ proc.data # JNull
       /\ proc.raised_in \in {"", "insert_extraction"}
       /\ pc[1] = "lookup"
            => /\ model_validate(Document).errors = {}
               /\ proc.data = model_validate(Document).val
               /\ call[1].extraction_output = AsExtractionOutput(proc.data)
               /\ call[1].pdf_path = proc.event.file_path

\* the valid document of a .pdf was persisted: article, extraction, two
\* evidence spans and the two outcome rows against Sorafenib
C18_Witness ==
    /\ proc.pc = "done"
    /\ proc.event.file_path = "a.pdf"
    /\ proc.response.statusCode = 200
    /\ Document = golden_response
    /\ Cardinality(articles) = 1
    /\ Cardinality(extractions) = 1
    /\ Len(evidence_spans) = 2
    /\ Len(outcomes_survival) = 2
    /\ outcomes_survival[1].median_b_months = <<123, 1>>

====
